---- MODULE Spec2Model ----
(***************************************************************************)
(* Brush / Face / Plane / Texture of goldsrcmap as a state machine.        *)
(*                                                                         *)
(* One Brush object is built (Brush() + add_face as load_map does, or one  *)
(* of the BrushGenerator primitives) and then driven through its public    *)
(* operations.  Python floats are modelled as exact rationals <<n, d>>     *)
(* (d > 0, lowest terms), so every comparison the code makes (== 0, > 0,   *)
(* < -1e-6, < 1e-4) is decided exactly.  Point and Texture objects live in *)
(* heaps (points, textures) indexed by object identity, because the        *)
(* generators hand the same Point / Texture object to several faces.       *)
(*                                                                         *)
(* Spec drives the brush through construction, add_face, moves and axis   *)
(* rotations; SpecInside adds is_point_inside, SpecCopy adds copy(),       *)
(* set_texture and collide_with on the brush and its copy, SpecRotate adds *)
(* rotate_xyz, rotate_around_axis and a rotation about one of the brush's  *)
(* own plane points, and SpecPoint rotates a single Point.                 *)
(* SpecQuery has centroid and bounding_box_origin, SpecTexture the texture *)
(* names, SpecFaces Face.centroid, SpecLists every call next to the vertex *)
(* lists of the faces; SpecVector normalizes a Vector3, SpecPlanes and     *)
(* SpecValid take three planes, SpecFile loads and writes a face line.     *)
(*                                                                         *)
(* brush.py imports get_intersection and calls Plane.point_behind; plane.py*)
(* defines these under the names get_plane_intersection and is_point_below,*)
(* which is what the model binds the two call sites to.                    *)
(***************************************************************************)
EXTENDS Integers, Sequences, FiniteSets, TLC

----------------------------------------------------------------------------
(* Bounds of the model                                                      *)

MaxOps == 2
MaxAdd == 3
Far == 100

----------------------------------------------------------------------------
(* float arithmetic, as exact rationals <<numerator, denominator>> in       *)
(* lowest terms with a positive denominator                                 *)

Abs(n) == IF n < 0 THEN -n ELSE n

RECURSIVE GCD(_, _)
GCD(a, b) == IF b = 0 THEN a ELSE GCD(b, a % b)

\* n / m in lowest terms, for m > 0
Reduce(n, m) ==
    IF n = 0 THEN <<0, 1>>
    ELSE LET g == GCD(Abs(n), m) IN <<n \div g, m \div g>>

Rat(n, m) == IF m < 0 THEN Reduce(-n, -m) ELSE Reduce(n, m)

R(n) == <<n, 1>>

QAdd(a, b) == Reduce(a[1] * b[2] + b[1] * a[2], a[2] * b[2])
QSub(a, b) == Reduce(a[1] * b[2] - b[1] * a[2], a[2] * b[2])
QMul(a, b) == Reduce(a[1] * b[1], a[2] * b[2])
QDiv(a, b) == Rat(a[1] * b[2], a[2] * b[1])
QNeg(a) == <<-a[1], a[2]>>
QAbs(a) == <<Abs(a[1]), a[2]>>
QLt(a, b) == a[1] * b[2] < b[1] * a[2]
QIsZero(a) == a[1] = 0

\* a + b + c
QAdd3(a, b, c) ==
    Reduce(a[1] * b[2] * c[2] + b[1] * a[2] * c[2] + c[1] * a[2] * b[2],
           a[2] * b[2] * c[2])

\* sum(q[lo], ..., q[hi]) of a sequence q of floats, added by halves
RECURSIVE sum(_, _, _)
sum(q, lo, hi) ==
    CASE lo > hi -> R(0)
      [] lo = hi -> q[lo]
      [] OTHER -> QAdd(sum(q, lo, (lo + hi) \div 2), sum(q, (lo + hi) \div 2 + 1, hi))

None == <<>>
Some(v) == <<v>>

\* Body applied to the value of e, which is evaluated once, before Body
Bind(e, Body(_)) == CHOOSE r \in {Body(x) : x \in {e}} : TRUE

\* the sequence s with every element evaluated
list(s) == SubSeq(s, 1, Len(s))

----------------------------------------------------------------------------
(* Vector3 and Point: records of three floats                               *)

Vector3(x, y, z) == [x |-> x, y |-> y, z |-> z]
Point(x, y, z) == [x |-> x, y |-> y, z |-> z]
IPoint(x, y, z) == Point(R(x), R(y), R(z))
IVector3(x, y, z) == Vector3(R(x), R(y), R(z))

as_vector(p) == Vector3(p.x, p.y, p.z)

\* Point.__sub__ : Point - Point -> Vector3
PointSub(p, q) == Vector3(QSub(p.x, q.x), QSub(p.y, q.y), QSub(p.z, q.z))

\* Point.__add__ : Point + Vector3 -> Point
PointAdd(p, v) == Point(QAdd(p.x, v.x), QAdd(p.y, v.y), QAdd(p.z, v.z))

VecAdd(a, b) == Vector3(QAdd(a.x, b.x), QAdd(a.y, b.y), QAdd(a.z, b.z))
VecScale(s, a) == Vector3(QMul(s, a.x), QMul(s, a.y), QMul(s, a.z))
VecDiv(a, s) == Vector3(QDiv(a.x, s), QDiv(a.y, s), QDiv(a.z, s))
VecNeg(a) == Vector3(QNeg(a.x), QNeg(a.y), QNeg(a.z))

dot(a, b) == QAdd3(QMul(a.x, b.x), QMul(a.y, b.y), QMul(a.z, b.z))

cross(a, b) ==
    Vector3(QSub(QMul(a.y, b.z), QMul(a.z, b.y)),
            QSub(QMul(a.z, b.x), QMul(a.x, b.z)),
            QSub(QMul(a.x, b.y), QMul(a.y, b.x)))

square_length(a) == dot(a, a)

\* Vector3.is_parallel(other, threshold = 1e-4) :
\* abs(abs(self.dot(other)) - 1) < threshold
is_parallel(a, b) ==
    Bind(QAbs(QSub(QAbs(dot(a, b)), R(1))), LAMBDA x : x[1] <= (x[2] - 1) \div 10000)

\* Vector3.is_null(threshold = 1e-4); n / m < 1e-4 is decided as
\* n <= (m - 1) div 1e4
is_null(a) ==
    LET small(x) == x[1] <= (x[2] - 1) \div 10000
    IN  small(QAbs(a.x)) /\ small(QAbs(a.y)) /\ small(QAbs(a.z))

\* Point.move_by
PointMoveBy(p, x, y, z) == Point(QAdd(p.x, x), QAdd(p.y, y), QAdd(p.z, z))

\* Point.is_near(other, threshold = 1e-12); n / m < 1e-12 is decided as
\* n <= ((m - 1) div 1e6) div 1e6
is_near(p, q) ==
    LET tiny(x) == x[1] <= ((x[2] - 1) \div 1000000) \div 1000000
    IN  /\ tiny(QAbs(QSub(p.x, q.x)))
        /\ tiny(QAbs(QSub(p.y, q.y)))
        /\ tiny(QAbs(QSub(p.z, q.z)))

----------------------------------------------------------------------------
(* Plane: three Point objects (heap indices) and the two cached attributes  *)

Plane(p1, p2, p3) == [p1 |-> p1, p2 |-> p2, p3 |-> p3, _normal |-> None, _d |-> None]

\* Plane.normal : the cached value if there is one, else computed from the points
normal(pl, pts) ==
    IF pl._normal = None
    THEN cross(PointSub(pts[pl.p1], pts[pl.p2]), PointSub(pts[pl.p3], pts[pl.p2]))
    ELSE pl._normal[1]

\* Plane.d : the cached value if there is one, else -normal . p1
d(pl, pts) ==
    IF pl._d = None
    THEN QNeg(dot(normal(pl, pts), as_vector(pts[pl.p1])))
    ELSE pl._d[1]

\* the Plane object after its normal property was read
ReadNormal(pl, pts) == [pl EXCEPT !._normal = Some(normal(pl, pts))]

\* the Plane object after its d property was read (d reads normal)
ReadD(pl, pts) ==
    Bind(ReadNormal(pl, pts), LAMBDA p : [p EXCEPT !._d = Some(d(p, pts))])

\* Plane.collinear_points
collinear_points(pl, pts) ==
    LET ab == PointSub(pts[pl.p2], pts[pl.p1])
        ac == PointSub(pts[pl.p3], pts[pl.p1])
    IN  is_null(cross(ab, ac))

\* Plane._solve_plane_equation for a plane given by its normal and d
solve_plane_equation(n, dd, point) == QAdd(dot(n, as_vector(point)), dd)

\* Plane.is_point_below(other, threshold = 1e-6), the method behind the
\* point_behind call of the winding pass; n / m < -1e-6 is decided as
\* -n > m div 1e6
is_point_below(n, dd, point) ==
    Bind(solve_plane_equation(n, dd, point), LAMBDA v :
         -v[1] > v[2] \div 1000000)

\* an intersection whose sum is divided by denom without being negated
get_plane_intersection_unsigned(n1, d1, n2, d2, n3, d3) ==
    Bind(cross(n2, n3), LAMBDA cross23 :
    Bind(dot(n1, cross23), LAMBDA denom :
        IF QIsZero(denom) THEN None
        ELSE Bind(<<VecScale(d1, cross23), VecScale(d2, cross(n3, n1)),
                    VecScale(d3, cross(n1, n2))>>, LAMBDA t :
             Bind(VecAdd(VecAdd(t[1], t[2]), t[3]), LAMBDA s :
                  Some(Point(QDiv(s.x, denom), QDiv(s.y, denom),
                             QDiv(s.z, denom)))))))

\* get_plane_intersection, on the normals and offsets of the three planes
get_plane_intersection(n1, d1, n2, d2, n3, d3) ==
    Bind(cross(n2, n3), LAMBDA cross23 :
    Bind(dot(n1, cross23), LAMBDA denom :
        IF QIsZero(denom) THEN None
        ELSE Bind(<<VecScale(d1, cross23), VecScale(d2, cross(n3, n1)),
                    VecScale(d3, cross(n1, n2))>>, LAMBDA t :
             Bind(VecAdd(VecAdd(t[1], t[2]), t[3]), LAMBDA s :
                  Some(Point(QDiv(QNeg(s.x), denom), QDiv(QNeg(s.y), denom),
                             QDiv(QNeg(s.z), denom)))))))

----------------------------------------------------------------------------
(* Face                                                                     *)

Face(plane, texture) == [id |-> 0, plane |-> plane, texture |-> texture, _vertices |-> <<>>]

\* Face.centroid : None, or the coordinate sums of the face's vertices over 3
FaceCentroid(face, pts) ==
    IF ~collinear_points(face.plane, pts) /\ face._vertices # <<>>
    THEN LET vs == face._vertices
             len == Len(vs)
         IN  Some(Point(QDiv(sum([i \in 1 .. len |-> vs[i].x], 1, len), R(3)),
                        QDiv(sum([i \in 1 .. len |-> vs[i].y], 1, len), R(3)),
                        QDiv(sum([i \in 1 .. len |-> vs[i].z], 1, len), R(3))))
    ELSE None

----------------------------------------------------------------------------
(* Vector3.normalized() and the comparisons of a.dot(b) in the winding      *)
(* pass. The unit vector of v is kept as the shortest integer vector of the *)
(* same direction, <<0, 0, 0>> standing for the ValueError of a vector of   *)
(* length zero; two such vectors are equal iff the unit vectors are.        *)

Direction(v) ==
    LET ix == v.x[1] * v.y[2] * v.z[2]
        iy == v.y[1] * v.x[2] * v.z[2]
        iz == v.z[1] * v.x[2] * v.y[2]
        g == GCD(GCD(Abs(ix), Abs(iy)), Abs(iz))
    IN  IF g = 0 THEN <<0, 0, 0>> ELSE <<ix \div g, iy \div g, iz \div g>>

ZeroLength == <<0, 0, 0>>

idot(a, b) == a[1] * b[1] + a[2] * b[2] + a[3] * b[3]

\* a / b < c / e for naturals a, c and positive b, e, by integer parts and
\* remainders (no product is formed)
RECURSIVE FracLt(_, _, _, _)
FracLt(a, b, c, e) ==
    CASE a \div b # c \div e -> a \div b < c \div e
      [] c % e = 0 -> FALSE
      [] a % b = 0 -> TRUE
      [] OTHER -> FracLt(e, c % e, b, a % b)

\* a.dot(b) > a.dot(c) for the unit vectors a, b, c of directions u, w1, w2:
\* (u.w1)/|w1| > (u.w2)/|w2|, decided on the signs and the squares
CosGt(u, w1, w2) ==
    LET s1 == idot(u, w1)
        s2 == idot(u, w2)
    IN  CASE s1 >= 0 /\ s2 < 0 -> TRUE
          [] s1 >= 0 -> FracLt(s2 * s2, idot(w2, w2), s1 * s1, idot(w1, w1))
          [] s2 >= 0 -> FALSE
          [] OTHER -> FracLt(s1 * s1, idot(w1, w1), s2 * s2, idot(w2, w2))

\* a.dot(b) > -1 for the unit vectors of directions u and w: w is not the
\* opposite of u
CosGtMinusOne(u, w) == w # <<-u[1], -u[2], -u[3]>>

Swap(vs, a, b) == [vs EXCEPT ![a] = vs[b], ![b] = vs[a]]

----------------------------------------------------------------------------
(* Brush._get_vertices, second part: the winding pass                       *)

\* brush.py 209-211: the candidates m = n + 1 .. len - 1 (0-based) of one pass
\* of the inner loop, entry i for m = n + i: None if the vertex is behind the
\* plane p, else the direction of b
Candidates(n, vs, center, pn, pd) ==
    list([i \in 1 .. Len(vs) - 1 - n |->
            IF is_point_below(pn, pd, vs[n + i + 1]) THEN None
            ELSE Some(Direction(PointSub(vs[n + i + 1], center)))])

\* brush.py 209-216: [err, smallest] after the inner loop. The loop keeps the
\* first candidate whose angle value exceeds -1 and all the earlier ones, so
\* it ends on the first candidate of largest value, or on -1 if none exceeds
\* -1; err tells that normalized() raised on some candidate.
WindScan(n, u, cs) ==
    LET elig == {i \in 1 .. Len(cs) : cs[i] # None}
        best == {i \in elig : /\ CosGtMinusOne(u, cs[i][1])
                              /\ \A j \in elig : ~CosGt(u, cs[j][1], cs[i][1])}
    IN  IF \E i \in elig : cs[i][1] = ZeroLength
        THEN [err |-> TRUE, smallest |-> -1]
        ELSE [err |-> FALSE,
              smallest |-> IF best = {} THEN -1
                           ELSE n + (CHOOSE i \in best : \A j \in best : i <= j)]

\* brush.py 204-216: one pass of the outer loop, for n (0-based): the vector
\* a, the plane p = Plane(vertices[n], center, center + face.normal), the scan
WindStep(n, vs, center, fnormal) ==
    Bind(PointSub(vs[n + 1], center), LAMBDA a :
        IF Direction(a) = ZeroLength THEN [err |-> TRUE, smallest |-> -1]
        ELSE Bind(cross(a, PointSub(PointAdd(center, fnormal), center)), LAMBDA pn :
             Bind(Candidates(n, vs, center, pn, QNeg(dot(pn, as_vector(vs[n + 1])))),
                  LAMBDA cs : WindScan(n, Direction(a), cs))))

\* brush.py 203-218: the winding loop over n = 0 .. len-3 (0-based) of one
\* face; the result is [err, vs]: err names the exception raised ("" if none:
\* ValueError from normalized(), TypeError from Point - None), vs is the list
\* as the loop left it; smallest = -1 swaps with the last entry
RECURSIVE WindFrom(_, _, _, _)
WindFrom(n, vs, center, fnormal) ==
    CASE n > Len(vs) - 3 -> [err |-> "", vs |-> vs]
      [] center = None -> [err |-> "TypeError", vs |-> vs]
      [] OTHER ->
            LET st == WindStep(n, vs, center[1], fnormal)
            IN  IF st.err THEN [err |-> "ValueError", vs |-> vs]
                ELSE WindFrom(n + 1,
                              Swap(vs, n + 2, IF st.smallest = -1 THEN Len(vs)
                                              ELSE st.smallest + 1),
                              center, fnormal)

\* a winding pass whose exchange is a plain assignment: the entry after the
\* first takes the value of the last one and the value it had is lost
WindFacesOverwriting(fs, pts) ==
    LET rs == list([f \in 1 .. Len(fs) |->
                       WindFrom(0, fs[f]._vertices, FaceCentroid(fs[f], pts),
                                normal(fs[f].plane, pts))])
        over(vs) == IF Len(vs) >= 3 THEN [vs EXCEPT ![2] = vs[Len(vs)]] ELSE vs
        bad == {f \in 1 .. Len(fs) : rs[f].err # ""}
        stop == IF bad = {} THEN Len(fs) ELSE CHOOSE f \in bad : \A g \in bad : f <= g
    IN  [err |-> IF bad = {} THEN "" ELSE rs[stop].err,
         faces |-> list([f \in 1 .. Len(fs) |->
                            IF f <= stop THEN [fs[f] EXCEPT !._vertices = over(rs[f].vs)]
                            ELSE fs[f]])]

\* brush.py 199-218: the winding pass, face by face; it stops at the first
\* face whose loop raises, the faces after it keep their lists
WindFaces(fs, pts) ==
    LET rs == list([f \in 1 .. Len(fs) |->
                       WindFrom(0, fs[f]._vertices, FaceCentroid(fs[f], pts),
                                normal(fs[f].plane, pts))])
        bad == {f \in 1 .. Len(fs) : rs[f].err # ""}
        stop == IF bad = {} THEN Len(fs) ELSE CHOOSE f \in bad : \A g \in bad : f <= g
    IN  [err |-> IF bad = {} THEN "" ELSE rs[stop].err,
         faces |-> list([f \in 1 .. Len(fs) |->
                            IF f <= stop THEN [fs[f] EXCEPT !._vertices = rs[f].vs]
                            ELSE fs[f]])]

----------------------------------------------------------------------------
(* Brush._get_vertices, first part: the triple loop                         *)

\* a legality test that lets every candidate through
LegalAlways(fs, pts, i, j, k, vertex) == TRUE

\* brush.py 187-192: no face other than i, j, k has the vertex in front of it
Legal(fs, pts, i, j, k, vertex) ==
    \A m \in 0 .. Len(fs) - 1 :
        (m # i /\ m # j /\ m # k) =>
            ~QLt(R(0), QAdd(dot(normal(fs[m + 1].plane, pts), as_vector(vertex)),
                            d(fs[m + 1].plane, pts)))

\* brush.py 173-179: the index triples (i, j, k) of the three loops, 0-based,
\* in loop order
Triples(sz) ==
    LET all == [t \in 1 .. sz * sz * sz |->
                   <<(t - 1) \div (sz * sz), ((t - 1) \div sz) % sz, (t - 1) % sz>>]
        inloop(tr) == tr[1] <= sz - 3 /\ tr[1] <= tr[2] /\ tr[2] <= sz - 2
                      /\ tr[2] <= tr[3]
    IN  SelectSeq(all, inloop)

\* brush.py 182: the candidate vertex of a triple, None or Some(point)
Candidate(fs, pts, tr) ==
    get_plane_intersection(
        normal(fs[tr[1] + 1].plane, pts), d(fs[tr[1] + 1].plane, pts),
        normal(fs[tr[2] + 1].plane, pts), d(fs[tr[2] + 1].plane, pts),
        normal(fs[tr[3] + 1].plane, pts), d(fs[tr[3] + 1].plane, pts))

\* brush.py 182-193: the triples whose candidate exists and is legal, in loop
\* order, each with its vertex
Accepted(fs, pts) ==
    LET trs == Triples(Len(fs))
        cand == [t \in 1 .. Len(trs) |->
                    [tr |-> trs[t], vertex |-> Candidate(fs, pts, trs[t])]]
        ok(c) == /\ c.vertex # None
                 /\ Legal(fs, pts, c.tr[1], c.tr[2], c.tr[3], c.vertex[1])
    IN  SelectSeq(cand, ok)

\* brush.py 193-197: every accepted vertex, in loop order, is appended to
\* brush_vertices and to the lists of the faces i, j, k of its triple (three
\* different faces: a triple that names a face twice has denom = 0)
Enumerate(fs, pts) ==
    LET acc == Accepted(fs, pts)
        of(f) == LET has(c) == f - 1 \in {c.tr[1], c.tr[2], c.tr[3]}
                 IN  SelectSeq(acc, has)
        vs(s) == [r \in 1 .. Len(s) |-> s[r].vertex[1]]
    IN  [faces |-> list([f \in 1 .. Len(fs) |->
                            [fs[f] EXCEPT !._vertices = @ \o vs(of(f))]]),
         bv |-> list(vs(acc))]

\* Brush._get_vertices : [err, faces, bv]; with three faces or more the triple
\* loop reads normal and d of every plane, which caches them
get_vertices(fs, pts) ==
    Bind(IF Len(fs) >= 3
         THEN list([f \in 1 .. Len(fs) |-> [fs[f] EXCEPT !.plane = ReadD(@, pts)]])
         ELSE fs, LAMBDA cached :
    Bind(Enumerate(cached, pts), LAMBDA e :
    Bind(WindFaces(e.faces, pts), LAMBDA w :
         [err |-> w.err, faces |-> w.faces, bv |-> e.bv])))

----------------------------------------------------------------------------
(* Matrix3x3 rotations, for angles that are multiples of 90 degrees (where  *)
(* cos and sin are taken at their exact values 0, 1, -1)                    *)

Cos(angle) ==
    CASE angle % 360 = 0 -> R(1)
      [] angle % 360 = 90 -> R(0)
      [] angle % 360 = 180 -> R(-1)
      [] angle % 360 = 270 -> R(0)

Sin(angle) ==
    CASE angle % 360 = 0 -> R(0)
      [] angle % 360 = 90 -> R(1)
      [] angle % 360 = 180 -> R(0)
      [] angle % 360 = 270 -> R(-1)

rotation_x(angle) ==
    <<  <<R(1), R(0), R(0)>>,
        <<R(0), Cos(angle), QNeg(Sin(angle))>>,
        <<R(0), Sin(angle), Cos(angle)>>  >>

rotation_y(angle) ==
    <<  <<Cos(angle), R(0), Sin(angle)>>,
        <<R(0), R(1), R(0)>>,
        <<QNeg(Sin(angle)), R(0), Cos(angle)>>  >>

rotation_z(angle) ==
    <<  <<Cos(angle), QNeg(Sin(angle)), R(0)>>,
        <<Sin(angle), Cos(angle), R(0)>>,
        <<R(0), R(0), R(1)>>  >>

\* math.hypot, on a vector of whole components whose length is a whole number
length(a) ==
    R(CHOOSE r \in 0 .. square_length(a)[1] : r * r = square_length(a)[1])

\* Vector3.normalized (no vector of Axes has length 0)
normalized(a) == VecDiv(a, length(a))

\* Vector3.normalize : [err, self, ret]; the vector divides itself by its
\* length and returns itself, a vector of length 0 returns itself as it is
normalize(a) ==
    IF QIsZero(length(a)) THEN [err |-> "", self |-> a, ret |-> Some(a)]
    ELSE Bind(VecDiv(a, length(a)), LAMBDA u : [err |-> "", self |-> u, ret |-> Some(u)])

\* Vector3.normalized : [err, self, ret]; a new vector, ValueError on length 0
vector_normalized(a) ==
    IF QIsZero(length(a)) THEN [err |-> "ValueError", self |-> a, ret |-> None]
    ELSE [err |-> "", self |-> a, ret |-> Some(normalized(a))]

\* Matrix3x3.rotate_around_axis
rotate_around_axis(angle, axis) ==
    LET c == Cos(angle)
        s == Sin(angle)
        C == QSub(R(1), Cos(angle))
        n == normalized(axis)
    IN  <<  <<QAdd(c, QMul(QMul(n.x, n.x), C)),
              QSub(QMul(QMul(n.x, n.y), C), QMul(n.z, s)),
              QAdd(QMul(QMul(n.x, n.z), C), QMul(n.y, s))>>,
            <<QAdd(QMul(QMul(n.y, n.x), C), QMul(n.z, s)),
              QAdd(c, QMul(QMul(n.y, n.y), C)),
              QSub(QMul(QMul(n.y, n.z), C), QMul(n.x, s))>>,
            <<QSub(QMul(QMul(n.z, n.x), C), QMul(n.y, s)),
              QAdd(QMul(QMul(n.z, n.y), C), QMul(n.x, s)),
              QAdd(c, QMul(QMul(n.z, n.z), C))>>  >>

\* Matrix3x3.__matmul__ with a Vector3
matmul(M, v) ==
    Vector3(QAdd3(QMul(M[1][1], v.x), QMul(M[1][2], v.y), QMul(M[1][3], v.z)),
            QAdd3(QMul(M[2][1], v.x), QMul(M[2][2], v.y), QMul(M[2][3], v.z)),
            QAdd3(QMul(M[3][1], v.x), QMul(M[3][2], v.y), QMul(M[3][3], v.z)))

\* Point.rotate_x / rotate_y / rotate_z : translate by -center, apply the
\* matrix, translate back (a Point or a non-empty list is truthy)
PointRotate(M, p, center) ==
    Bind(PointMoveBy(p, QNeg(center.x), QNeg(center.y), QNeg(center.z)), LAMBDA t :
    Bind(matmul(M, as_vector(t)), LAMBDA q :
         PointMoveBy(Point(q.x, q.y, q.z), center.x, center.y, center.z)))

\* Point.rotate_x / rotate_y / rotate_z called with the Point itself as
\* center: every "self.c -= center[i]" and "self.c += center[i]" reads the
\* coordinate it is writing
PointRotateSelf(M, p) ==
    Bind(Point(QSub(p.x, p.x), QSub(p.y, p.y), QSub(p.z, p.z)), LAMBDA t :
    Bind(matmul(M, as_vector(t)), LAMBDA q :
         Point(QAdd(q.x, q.x), QAdd(q.y, q.y), QAdd(q.z, q.z))))

\* Point.rotate_xyz : translate by -center, rotate_x, rotate_y and rotate_z
\* about center, translate by center
PointRotateXYZ(p, phi, theta, psi, center) ==
    Bind(PointMoveBy(p, QNeg(center.x), QNeg(center.y), QNeg(center.z)), LAMBDA t :
    Bind(PointRotate(rotation_x(phi), t, center), LAMBDA a :
    Bind(PointRotate(rotation_y(theta), a, center), LAMBDA b :
    Bind(PointRotate(rotation_z(psi), b, center), LAMBDA c :
         PointMoveBy(c, center.x, center.y, center.z)))))

\* Point.rotate_around_axis
PointRotateAroundAxis(p, angle, axis) ==
    Bind(matmul(rotate_around_axis(angle, axis), as_vector(p)), LAMBDA q :
         Point(q.x, q.y, q.z))

\* Face.is_valid : [ret, face]; Face.normal is read, and cached by the plane,
\* unless the plane points are collinear
is_valid(face, pts, texs) ==
    IF collinear_points(face.plane, pts) THEN [ret |-> FALSE, face |-> face]
    ELSE Bind([face EXCEPT !.plane = ReadNormal(@, pts)], LAMBDA read :
              [ret |-> ~ (\/ is_parallel(normal(read.plane, pts), texs[face.texture].u_axis)
                         \/ is_parallel(normal(read.plane, pts), texs[face.texture].v_axis)),
               face |-> read])

----------------------------------------------------------------------------
(* Texture                                                                  *)

\* str.upper() on the texture names the model uses
upper(name) ==
    CASE name = "null" -> "NULL"
      [] name = "sky" -> "SKY"
      [] name = "Sky" -> "SKY"
      [] OTHER -> name

Texture(name, u_axis, u_offset, v_axis, v_offset, rotation, u_scale, v_scale) ==
    [name |-> upper(name), u_axis |-> u_axis, u_offset |-> u_offset,
     v_axis |-> v_axis, v_offset |-> v_offset, rotation |-> rotation,
     u_scale |-> u_scale, v_scale |-> v_scale]

\* Texture._rotate_uv
rotate_uv(tex, M) ==
    [tex EXCEPT !.u_axis = matmul(M, tex.u_axis), !.v_axis = matmul(M, tex.v_axis)]

\* an offset update that adds the projected displacement
update_offset_added(tex, displacement) ==
    [tex EXCEPT !.u_offset = QAdd(@, QDiv(dot(displacement, tex.u_axis), tex.u_scale)),
                !.v_offset = QAdd(@, QDiv(dot(displacement, tex.v_axis), tex.v_scale))]

\* Texture._update_offset
update_offset(tex, displacement) ==
    [tex EXCEPT !.u_offset = QSub(@, QDiv(dot(displacement, tex.u_axis), tex.u_scale)),
                !.v_offset = QSub(@, QDiv(dot(displacement, tex.v_axis), tex.v_scale))]

----------------------------------------------------------------------------
(* Face.move_by and Face.rotate_x / rotate_y / rotate_z, as run by the      *)
(* Brush methods of the same names: op = [kind, x, y, z] for move_by and    *)
(* [kind, angle, center] for the rotations                                  *)

FacePointOp(op, p) ==
    CASE op.kind = "move_by" -> PointMoveBy(p, op.x, op.y, op.z)
      [] op.kind = "rotate_x" -> PointRotate(rotation_x(op.angle), p, op.center)
      [] op.kind = "rotate_y" -> PointRotate(rotation_y(op.angle), p, op.center)
      [] op.kind = "rotate_z" -> PointRotate(rotation_z(op.angle), p, op.center)
      [] op.kind = "rotate_xyz" ->
            PointRotateXYZ(p, op.phi, op.theta, op.psi, IPoint(0, 0, 0))
      [] op.kind = "rotate_around_axis" -> PointRotateAroundAxis(p, op.angle, op.axis)

\* the Texture methods a Face method calls, in order, with their arguments
\* (_rotate_uv_x / _y / _z / _around_axis are _rotate_uv of a matrix)
TextureCalls(op) ==
    LET uv(M) == [method |-> "_rotate_uv", arg |-> M]
        offset(v) == [method |-> "_update_offset", arg |-> v]
    IN  CASE op.kind = "move_by" -> <<offset(Vector3(op.x, op.y, op.z))>>
          [] op.kind = "rotate_x" ->
                <<uv(rotation_x(op.angle)), offset(IVector3(0, 0, 0))>>
          [] op.kind = "rotate_y" ->
                <<uv(rotation_x(op.angle)), offset(IVector3(0, 0, 0))>>
          [] op.kind = "rotate_z" ->
                <<uv(rotation_z(op.angle)), offset(IVector3(0, 0, 0))>>
          [] op.kind = "rotate_xyz" ->
                <<uv(rotation_x(op.phi)), uv(rotation_y(op.theta)),
                  uv(rotation_z(op.psi)), offset(IVector3(0, 0, 0))>>
          [] op.kind = "rotate_around_axis" ->
                <<uv(rotate_around_axis(op.angle, op.axis))>>

RECURSIVE ApplyCalls(_, _, _)
ApplyCalls(calls, tex, i) ==
    IF i > Len(calls) THEN tex
    ELSE Bind(IF calls[i].method = "_rotate_uv"
              THEN rotate_uv(tex, calls[i].arg)
              ELSE update_offset(tex, calls[i].arg), LAMBDA t :
              ApplyCalls(calls, t, i + 1))

FaceTextureOp(op, tex) == ApplyCalls(TextureCalls(op), tex, 1)

\* the loop "for face in self: face.<op>(...)" on the Point heap: every face
\* applies the operation to the Point objects of its plane, so an object is
\* transformed once per reference that the faces hold to it
PointVisits(fs, p) ==
    Cardinality({fk \in (1 .. Len(fs)) \X {1, 2, 3} :
                    <<fs[fk[1]].plane.p1, fs[fk[1]].plane.p2,
                      fs[fk[1]].plane.p3>>[fk[2]] = p})

RECURSIVE Repeat(_, _, _)
Repeat(op, p, k) ==
    IF k = 0 THEN p
    ELSE Bind(FacePointOp(op, p), LAMBDA q : Repeat(op, q, k - 1))

BrushPointsOp(op, fs, pts) ==
    [p \in 1 .. Len(pts) |-> Repeat(op, pts[p], PointVisits(fs, p))]

\* the same loop on the Texture heap
RECURSIVE RepeatTexture(_, _, _)
RepeatTexture(op, tex, k) ==
    IF k = 0 THEN tex
    ELSE Bind(FaceTextureOp(op, tex), LAMBDA t : RepeatTexture(op, t, k - 1))

BrushTexturesOp(op, fs, texs) ==
    [t \in 1 .. Len(texs) |->
        RepeatTexture(op, texs[t],
                      Cardinality({f \in 1 .. Len(fs) : fs[f].texture = t}))]

----------------------------------------------------------------------------
(* Inputs: face records of .map files, cuboid sizes and positions, offsets  *)

\* one face line "( p1 ) ( p2 ) ( p3 ) NAME [ 1 0 0 0 ] [ 0 -1 0 0 ] 0 1 1"
FaceLine(a, b, c, name) ==
    [p1 |-> IPoint(a[1], a[2], a[3]), p2 |-> IPoint(b[1], b[2], b[3]),
     p3 |-> IPoint(c[1], c[2], c[3]), name |-> name,
     u_axis |-> IVector3(1, 0, 0), u_offset |-> R(0),
     v_axis |-> IVector3(0, -1, 0), v_offset |-> R(0),
     rotation |-> R(0), u_scale |-> R(1), v_scale |-> R(1)]

\* a four-sided pyramid: base [0,2] x [0,2] at z = 0, apex (1, 1, 1)
PyramidFile ==
    <<  FaceLine(<<0, 0, 0>>, <<2, 0, 0>>, <<0, 2, 0>>, "sky"),
        FaceLine(<<0, 0, 0>>, <<1, 1, 1>>, <<2, 0, 0>>, "sky"),
        FaceLine(<<2, 0, 0>>, <<1, 1, 1>>, <<2, 2, 0>>, "sky"),
        FaceLine(<<2, 2, 0>>, <<1, 1, 1>>, <<0, 2, 0>>, "sky"),
        FaceLine(<<0, 2, 0>>, <<1, 1, 1>>, <<0, 0, 0>>, "sky")  >>

\* the single half-space x + y <= 1
CutFile ==
    <<  FaceLine(<<1, 0, 0>>, <<1, 0, 1>>, <<0, 1, 0>>, "Sky")  >>

Files == <<PyramidFile, CutFile>>

Dims == {<<1, 1, 1>>, <<2, 1, 3>>}
Positions == {<<0, 0, 0>>, <<0, 1, 1>>, <<2, 3, 4>>}
Offsets == {<<1, -1, 2>>}
Targets == {<<0, 0, 0>>}
Angles == {90, 360}
FullTurns == {360}
\* the brushes that are rotated about one of their own plane points
Aliased == {"load_map", "tetrahedron"}
Eulers == {<<90, 180, 270>>}
Axes == {<<0, 0, 2>>}
Names == {"Sky"}
\* the names has_texture and replace_texture look for
Wanted == {"Sky", "sky", "NULL"}
Probes == {<<0, 0, 0>>}
Directions == {<<1, 0, 0>>, <<0, -1, 0>>, <<0, 0, 1>>}
Centers == {<<0, 0, 0>>}
Edges == {6}
Segments == {1, 2}

----------------------------------------------------------------------------
(* Brush: the object, with the Point and Texture objects its faces refer to *)

\* Brush.__init__
Brush ==
    [points |-> <<>>, textures |-> <<>>, faces |-> <<>>, face_counter |-> 0,
     _vertices |-> <<>>, _origin |-> None]

\* the outcome of a call: the exception it raised ("" if none), the runs of
\* _get_vertices it made, and the brush as it leaves it
Outcome(e, runs, self) == [err |-> e, runs |-> runs, self |-> self]

\* Face objects for face lines, on the Point and Texture objects that follow
\* the npts and ntex objects there are
LineFaces(lines, npts, ntex) ==
    [i \in 1 .. Len(lines) |->
        Face(Plane(npts + 3 * i - 2, npts + 3 * i - 1, npts + 3 * i), ntex + i)]

LinePoints(lines) ==
    [i \in 1 .. 3 * Len(lines) |->
        LET ln == lines[(i + 2) \div 3]
        IN  CASE i % 3 = 1 -> ln.p1 [] i % 3 = 2 -> ln.p2 [] OTHER -> ln.p3]

\* loader.py 72-81
LineTextures(lines) ==
    [i \in 1 .. Len(lines) |->
        Texture(upper(lines[i].name), lines[i].u_axis, lines[i].u_offset,
                lines[i].v_axis, lines[i].v_offset, lines[i].rotation,
                lines[i].u_scale, lines[i].v_scale)]

\* Brush.add_face(list): ids from face_counter on, appended in order
add_face(self, new) ==
    [self EXCEPT
        !.faces = @ \o [i \in 1 .. Len(new) |->
                           [new[i] EXCEPT !.id = self.face_counter + i - 1]],
        !.face_counter = @ + Len(new)]

\* loader.py 64-84: the Face objects of face lines, made and handed to add_face
AddLines(self, lines) ==
    add_face([self EXCEPT !.points = @ \o LinePoints(lines),
                          !.textures = @ \o LineTextures(lines)],
             LineFaces(lines, Len(self.points), Len(self.textures)))

\* the property Brush.vertices
vertices(self) ==
    IF self._vertices # <<>> THEN Outcome("", 0, self)
    ELSE Bind(get_vertices(self.faces, self.points), LAMBDA r :
              Outcome(r.err, 1,
                      [self EXCEPT !.faces = r.faces,
                                   !._vertices = IF r.err = "" THEN r.bv ELSE @]))

\* Brush.centroid on the vertex list
centroid(bv) ==
    IF Len(bv) = 0 THEN IPoint(0, 0, 0)
    ELSE LET len == Len(bv)
         IN  Point(QDiv(sum([i \in 1 .. len |-> bv[i].x], 1, len), R(len)),
                   QDiv(sum([i \in 1 .. len |-> bv[i].y], 1, len), R(len)),
                   QDiv(sum([i \in 1 .. len |-> bv[i].z], 1, len), R(len)))

QMin(S) == CHOOSE a \in S : \A b \in S : ~QLt(b, a)
QMax(S) == CHOOSE a \in S : \A b \in S : ~QLt(a, b)

\* Brush.bounding_box_origin on a non-empty vertex list
bounding_box_origin(bv) ==
    LET xs == {bv[i].x : i \in 1 .. Len(bv)}
        ys == {bv[i].y : i \in 1 .. Len(bv)}
        zs == {bv[i].z : i \in 1 .. Len(bv)}
    IN  Point(QDiv(QAdd(QMin(xs), QMax(xs)), R(2)),
              QDiv(QAdd(QMin(ys), QMax(ys)), R(2)),
              QDiv(QAdd(QMin(zs), QMax(zs)), R(2)))

\* Brush.centroid() : [err, runs, self, ret]; len(self.vertices) enumerates
\* if the list is empty, the later reads of self.vertices find the list set
brush_centroid(self) ==
    Bind(vertices(self), LAMBDA a :
         [err |-> a.err, runs |-> a.runs, self |-> a.self,
          ret |-> IF a.err = "" THEN Some(centroid(a.self._vertices)) ELSE None])

\* Brush.bounding_box_origin() : [err, runs, self, ret]; min() of no vertex
\* raises ValueError
brush_bounding_box_origin(self) ==
    Bind(vertices(self), LAMBDA a :
        CASE a.err # "" ->
                [err |-> a.err, runs |-> a.runs, self |-> a.self, ret |-> None]
          [] a.self._vertices = <<>> ->
                [err |-> "ValueError", runs |-> a.runs, self |-> a.self, ret |-> None]
          [] OTHER ->
                [err |-> "", runs |-> a.runs, self |-> a.self,
                 ret |-> Some(bounding_box_origin(a.self._vertices))])

\* the property Brush.origin
origin(self) ==
    IF self._origin # None THEN Outcome("", 0, self)
    ELSE Bind(vertices(self), LAMBDA a :
              IF a.err # "" THEN a
              ELSE [a EXCEPT !.self._origin = Some(centroid(a.self._vertices))])

\* a loop "for face in self: face.<op>(...)"
ForFaces(self, op) ==
    [self EXCEPT !.points = list(BrushPointsOp(op, self.faces, @)),
                 !.textures = list(BrushTexturesOp(op, self.faces, @))]

\* Brush.move_by
move_by(self, x, y, z) ==
    ForFaces(self, [kind |-> "move_by", x |-> x, y |-> y, z |-> z])

\* Brush.move_to(x, y, z) and Brush.move_to(x, y, z, bbox=True): min() of no
\* vertex raises ValueError
move_to(self, x, y, z, bbox) ==
    Bind(vertices(self), LAMBDA a :
        CASE a.err # "" -> a
          [] bbox /\ a.self._vertices = <<>> -> [a EXCEPT !.err = "ValueError"]
          [] OTHER ->
                Bind(IF bbox THEN bounding_box_origin(a.self._vertices)
                             ELSE centroid(a.self._vertices), LAMBDA reference :
                     [a EXCEPT !.self = move_by(@, QSub(x, reference.x),
                                                QSub(y, reference.y),
                                                QSub(z, reference.z))]))

\* Brush.rotate_x, Brush.rotate_y, Brush.rotate_z (kind names the method)
rotate(self, kind, angle, center) ==
    ForFaces(self, [kind |-> kind, angle |-> angle, center |-> center])

\* the Point objects that the loops "for face in self.faces: for point in
\* self.plane" come to, in order
Visits(fs) ==
    [i \in 1 .. 3 * Len(fs) |->
        <<fs[((i - 1) \div 3) + 1].plane.p1, fs[((i - 1) \div 3) + 1].plane.p2,
          fs[((i - 1) \div 3) + 1].plane.p3>>[((i - 1) % 3) + 1]]

RECURSIVE RepeatSelf(_, _, _)
RepeatSelf(M, p, k) ==
    IF k = 0 THEN p
    ELSE Bind(PointRotateSelf(M, p), LAMBDA q : RepeatSelf(M, q, k - 1))

\* Brush.rotate_x / rotate_y / rotate_z with one of the brush's own plane
\* Points, the object a, as center: the Points the loops come to before a
\* turn about a's position, a is rotated about itself, and the Points that
\* follow turn about the position this leaves a at
rotate_about(self, kind, angle, a) ==
    LET M == CASE kind = "rotate_x" -> rotation_x(angle)
               [] kind = "rotate_y" -> rotation_y(angle)
               [] kind = "rotate_z" -> rotation_z(angle)
        vs == Visits(self.faces)
        first == CHOOSE i \in 1 .. Len(vs) :
                    vs[i] = a /\ \A j \in 1 .. i - 1 : vs[j] # a
        count(q, S) == Cardinality({i \in S : vs[i] = q})
        op(c) == [kind |-> kind, angle |-> angle, center |-> c]
    IN  Bind(PointRotateSelf(M, self.points[a]), LAMBDA moved :
        [self EXCEPT
            !.points = list([q \in 1 .. Len(self.points) |->
                IF q = a
                THEN RepeatSelf(M, self.points[a], count(a, 1 .. Len(vs)))
                ELSE Bind(Repeat(op(self.points[a]), self.points[q],
                                 count(q, 1 .. first - 1)), LAMBDA before :
                          Repeat(op(moved), before, count(q, first + 1 .. Len(vs))))]),
            !.textures = list(BrushTexturesOp(op(self.points[a]), self.faces,
                                              self.textures))])

\* Brush.rotate_xyz
rotate_xyz(self, phi, theta, psi) ==
    ForFaces(self, [kind |-> "rotate_xyz", phi |-> phi, theta |-> theta, psi |-> psi])

\* Brush.rotate_around_axis
brush_rotate_around_axis(self, angle, axis) ==
    ForFaces(self, [kind |-> "rotate_around_axis", angle |-> angle, axis |-> axis])

\* Brush.set_texture : every face stores the name, as given, in its Texture
set_texture(self, new_texture) ==
    [self EXCEPT !.textures =
        [t \in 1 .. Len(self.textures) |->
            IF \E f \in 1 .. Len(self.faces) : self.faces[f].texture = t
            THEN [self.textures[t] EXCEPT !.name = new_texture]
            ELSE self.textures[t]]]

\* Face.has_texture(text_name) with exact = True
face_has_texture(self, f, text_name) ==
    self.textures[self.faces[f].texture].name = upper(text_name)

\* Brush.has_texture(name)
has_texture(self, name) ==
    \E f \in 1 .. Len(self.faces) : face_has_texture(self, f, name)

\* Brush.replace_texture from face f on: each face that has the texture old
\* when the loop comes to it stores the name new
RECURSIVE ReplaceFrom(_, _, _, _)
ReplaceFrom(self, old, new, f) ==
    IF f > Len(self.faces) THEN self
    ELSE Bind(IF face_has_texture(self, f, old)
              THEN [self EXCEPT !.textures[self.faces[f].texture].name = new]
              ELSE self, LAMBDA next :
              ReplaceFrom(next, old, new, f + 1))

\* Brush.replace_texture
replace_texture(self, old, new) == ReplaceFrom(self, old, new, 1)

\* a copy whose faces keep the Point and Texture objects of the original
copy_shared(self) == self

\* Brush.copy : deepcopy makes a new object for every object the brush
\* reaches, one per original object.  The result is the copy, on heaps that
\* hold the original's objects followed by the new ones; its lists
\* (_vertices, the faces' _vertices) hold Points that no code mutates and are
\* kept as values
copy(self) ==
    [self EXCEPT
        !.points = self.points \o self.points,
        !.textures = self.textures \o self.textures,
        !.faces = [f \in 1 .. Len(self.faces) |->
                    [self.faces[f] EXCEPT
                        !.plane.p1 = @ + Len(self.points),
                        !.plane.p2 = @ + Len(self.points),
                        !.plane.p3 = @ + Len(self.points),
                        !.texture = @ + Len(self.textures)]]]

\* the first face that has the point in front of it or on it
FirstOutsideOrOn(fs, pts, point) ==
    LET out == {f \in 1 .. Len(fs) :
                    ~QLt(QAdd(dot(normal(fs[f].plane, pts), as_vector(point)),
                              d(fs[f].plane, pts)), R(0))}
    IN  IF out = {} THEN 0 ELSE CHOOSE f \in out : \A g \in out : f <= g

\* brush.py 106-108: the first face, in list order, that has the point in
\* front of it; 0 if there is none
FirstOutside(fs, pts, point) ==
    LET out == {f \in 1 .. Len(fs) :
                    QLt(R(0), QAdd(dot(normal(fs[f].plane, pts), as_vector(point)),
                                   d(fs[f].plane, pts)))}
    IN  IF out = {} THEN 0 ELSE CHOOSE f \in out : \A g \in out : f <= g

\* Brush.is_point_inside : the answer, and the brush with normal and d read on
\* the faces the loop came to
is_point_inside(self, point) ==
    Bind(FirstOutside(self.faces, self.points, point), LAMBDA k :
         [ret |-> k = 0,
          self |-> [self EXCEPT !.faces =
                        list([f \in 1 .. Len(self.faces) |->
                                IF k = 0 \/ f <= k
                                THEN [self.faces[f] EXCEPT
                                        !.plane = ReadD(@, self.points)]
                                ELSE self.faces[f]])]])

\* brush.py 88-90, 91-93: "for vertex in vs: if brush.is_point_inside(vertex):
\* return True", from the i-th vertex on
RECURSIVE AnyInside(_, _, _)
AnyInside(brush, vs, i) ==
    IF i > Len(vs) THEN [ret |-> FALSE, self |-> brush]
    ELSE Bind(is_point_inside(brush, vs[i]), LAMBDA r :
              IF r.ret THEN r ELSE AnyInside(r.self, vs, i + 1))

\* Brush.collide_with : the answer (None if a vertex access raised) and both
\* brushes as the call leaves them
collide_with(self, other) ==
    Bind(vertices(self), LAMBDA a :
    IF a.err # ""
    THEN [err |-> a.err, runs |-> a.runs, ret |-> None, self |-> a.self, other |-> other]
    ELSE Bind(AnyInside(other, a.self._vertices, 1), LAMBDA r1 :
    IF r1.ret
    THEN [err |-> "", runs |-> a.runs, ret |-> Some(TRUE), self |-> a.self,
          other |-> r1.self]
    ELSE Bind(vertices(r1.self), LAMBDA b :
    IF b.err # ""
    THEN [err |-> b.err, runs |-> a.runs, ret |-> None, self |-> a.self,
          other |-> b.self]
    ELSE Bind(AnyInside(a.self, b.self._vertices, 1), LAMBDA r2 :
         [err |-> "", runs |-> a.runs, ret |-> Some(r2.ret), self |-> r2.self,
          other |-> b.self]))))

----------------------------------------------------------------------------
(* BrushGenerator and load_map                                              *)

\* the six faces of BrushGenerator.cuboid, as face lines
CuboidLines(w, l, h, x, y, z, texture) ==
    LET ln(a, b, c, u, v) ==
            [FaceLine(a, b, c, texture) EXCEPT
                !.u_axis = IVector3(u[1], u[2], u[3]),
                !.v_axis = IVector3(v[1], v[2], v[3])]
    IN  <<  ln(<<x, y, z + h>>, <<x, y + l, z + h>>, <<x + w, y + l, z + h>>,
               <<1, 0, 0>>, <<0, -1, 0>>),
            ln(<<x, y + l, z>>, <<x, y, z>>, <<x + w, y, z>>,
               <<1, 0, 0>>, <<0, -1, 0>>),
            ln(<<x + w, y + l, z>>, <<x + w, y + l, z + h>>, <<x, y + l, z + h>>,
               <<-1, 0, 0>>, <<0, 0, -1>>),
            ln(<<x + w, y, z + h>>, <<x + w, y, z>>, <<x, y, z>>,
               <<1, 0, 0>>, <<0, 0, -1>>),
            ln(<<x, y, z>>, <<x, y + l, z>>, <<x, y + l, z + h>>,
               <<0, -1, 0>>, <<0, 0, -1>>),
            ln(<<x + w, y + l, z>>, <<x + w, y, z>>, <<x + w, y, z + h>>,
               <<0, 1, 0>>, <<0, 0, -1>>)  >>

\* BrushGenerator.cuboid(w, l, h, [x, y, z], center, texture)
cuboid(w, l, h, x, y, z, center, texture) ==
    Bind(AddLines(Brush, CuboidLines(w, l, h, x, y, z, texture)), LAMBDA b :
    Bind([b EXCEPT !.textures =
              list([i \in 1 .. Len(b.textures) |->
                       update_offset(b.textures[i], IVector3(x, y, z))])],
         LAMBDA brush :
        IF ~center THEN Outcome("", 0, brush)
        ELSE Bind(vertices(brush), LAMBDA a :
             CASE a.err # "" -> a
               [] a.self._vertices = <<>> -> [a EXCEPT !.err = "ValueError"]
               [] OTHER ->
                    Bind(PointSub(IPoint(x, y, z),
                                  bounding_box_origin(a.self._vertices)),
                         LAMBDA new_position :
                         [a EXCEPT !.self = move_by(@, new_position.x, new_position.y,
                                                    new_position.z)]))))

\* BrushGenerator.tetrahedron(edge_length, [x, y, z]): four Point objects
\* shared by the four planes, the faces assigned to brush.faces directly
tetrahedron(edge_length, x, y, z) ==
    LET e == R(edge_length)
        v0 == IPoint(x, y, z)
        v1 == Point(QAdd(R(x), e), R(y), R(z))
        v2 == Point(R(x), QSub(R(y), e), R(z))
        c == Point(QDiv(QAdd3(v0.x, v1.x, v2.x), R(3)),
                   QDiv(QAdd3(v0.y, v1.y, v2.y), R(3)),
                   QDiv(QAdd3(v0.z, v1.z, v2.z), R(3)))
        height == QDiv(QNeg(e), R(4))
        v3 == Point(c.x, c.y, QAdd(c.z, QMul(Rat(2, 3), height)))
        tex == Texture(upper("null"), IVector3(1, 0, 0), R(0), IVector3(0, -1, 0),
                       R(0), R(0), R(1), R(1))
    IN  Outcome("", 0,
                [Brush EXCEPT
                    !.points = <<v0, v1, v2, v3>>,
                    !.textures = <<tex, tex, tex, tex>>,
                    !.faces = <<Face(Plane(1, 2, 3), 1), Face(Plane(1, 3, 4), 2),
                                Face(Plane(1, 4, 2), 3), Face(Plane(2, 4, 3), 4)>>])

\* BrushGenerator.sphere: with segments // 2 >= 1 the first pass of the loop
\* reads the unassigned name u1 (line 122); otherwise no face is made
sphere(segments) ==
    Outcome(IF segments \div 2 >= 1 THEN "NameError" ELSE "", 0, Brush)

----------------------------------------------------------------------------
(* State                                                                    *)

VARIABLES
    points,         \* heap of Point objects that planes refer to
    textures,       \* heap of Texture objects that faces refer to
    built,          \* how the brush was made; "none" before
    faces,          \* Brush.faces
    face_counter,   \* Brush.face_counter
    _vertices,      \* Brush._vertices
    _origin,        \* Brush._origin
    cursor,         \* face lines already handed to add_face
    ops,            \* operations run on the brush
    err,            \* exception raised by the last call, "" if none
    nerr,           \* exceptions raised so far
    enum_runs,      \* runs of _get_vertices on the brush so far
    enum_faces,     \* faces the brush had at the last run of _get_vertices
    last,           \* the last call and its arguments
    returned,       \* what the last call returned, None if nothing or raised
    other           \* the second brush after Brush.copy, None before: its
                    \* faces, face_counter, _vertices and _origin, on the heaps

vars == <<points, textures, built, faces, face_counter, _vertices, _origin,
          cursor, ops, err, nerr, enum_runs, enum_faces, last, returned, other>>

Init ==
    /\ points = <<>>
    /\ textures = <<>>
    /\ built = "none"
    /\ faces = <<>>
    /\ face_counter = 0
    /\ _vertices = <<>>
    /\ _origin = None
    /\ cursor = 0
    /\ ops = 0
    /\ err = ""
    /\ nerr = 0
    /\ enum_runs = 0
    /\ enum_faces = 0
    /\ last = [op |-> "", arg |-> <<>>]
    /\ returned = None
    /\ other = None

\* the brush of the current state
Self ==
    [points |-> points, textures |-> textures, faces |-> faces,
     face_counter |-> face_counter, _vertices |-> _vertices, _origin |-> _origin]

\* the brush and the counts after a call of outcome r
Becomes(r) ==
    /\ points' = r.self.points
    /\ textures' = r.self.textures
    /\ faces' = r.self.faces
    /\ face_counter' = r.self.face_counter
    /\ _vertices' = r.self._vertices
    /\ _origin' = r.self._origin
    /\ enum_runs' = enum_runs + r.runs
    /\ enum_faces' = IF r.runs > 0 THEN Len(r.self.faces) ELSE enum_faces
    /\ err' = r.err
    /\ nerr' = IF r.err = "" THEN nerr ELSE nerr + 1

----------------------------------------------------------------------------
(* Construction: a generator that raises returns no brush ("failed")        *)

Construct(kind, arg, r) ==
    /\ Becomes(IF r.err = "" THEN r ELSE Outcome(r.err, 0, Brush))
    /\ built' = IF r.err = "" THEN kind ELSE "failed"
    /\ last' = [op |-> kind, arg |-> arg]
    /\ returned' = None
    /\ UNCHANGED <<cursor, ops, other>>

\* Brush()
NewBrush ==
    /\ built = "none"
    /\ Construct("Brush", <<>>, Outcome("", 0, Brush))

\* load_map on a file with one brush block: Brush(), then add_face per line
LoadBrush ==
    /\ built = "none"
    /\ \E file \in 1 .. Len(Files) :
       \E r \in {Outcome("", 0, AddLines(Brush, Files[file]))} :
        Construct("load_map", <<file>>, r)

\* BrushGenerator.cuboid
Cuboid ==
    /\ built = "none"
    /\ \E dim \in Dims, pos \in Positions, center \in BOOLEAN :
       \E r \in {cuboid(dim[1], dim[2], dim[3], pos[1], pos[2], pos[3], center, "null")} :
        Construct("cuboid", <<dim, pos, center>>, r)

\* BrushGenerator.tetrahedron
Tetrahedron ==
    /\ built = "none"
    /\ \E edge \in Edges, pos \in Positions :
       \E r \in {tetrahedron(edge, pos[1], pos[2], pos[3])} :
        Construct("tetrahedron", <<edge, pos>>, r)

\* BrushGenerator.sphere
Sphere ==
    /\ built = "none"
    /\ \E segments \in Segments :
        Construct("sphere", <<segments>>, sphere(segments))

----------------------------------------------------------------------------
(* Operations on the brush                                                  *)

Usable == built \notin {"none", "failed"}

CanRun == Usable /\ ops < MaxOps

Call(name, arg, r, ret) ==
    /\ Becomes(r)
    /\ ops' = ops + 1
    /\ last' = [op |-> name, arg |-> arg]
    /\ returned' = ret
    /\ UNCHANGED built

Op(name, arg, r) ==
    /\ Call(name, arg, r, None)
    /\ UNCHANGED other

\* Brush.add_face with the Face objects of the next k face lines of a file
AddFace ==
    /\ CanRun
    /\ \E file \in 1 .. Len(Files), k \in 1 .. MaxAdd :
        /\ cursor + k <= Len(Files[file])
        /\ \E r \in {Outcome("", 0, AddLines(Self, SubSeq(Files[file], cursor + 1,
                                                         cursor + k)))} :
            Op("add_face", <<file, k>>, r)
        /\ cursor' = cursor + k

\* reading Brush.vertices
GetVertices ==
    /\ CanRun
    /\ \E r \in {vertices(Self)} : Op("vertices", <<>>, r)
    /\ UNCHANGED cursor

\* reading Brush.origin
GetOrigin ==
    /\ CanRun
    /\ \E r \in {origin(Self)} : Op("origin", <<>>, r)
    /\ UNCHANGED cursor

\* Brush.move_by
MoveBy ==
    /\ CanRun
    /\ \E off \in Offsets :
       \E r \in {Outcome("", 0, move_by(Self, R(off[1]), R(off[2]), R(off[3])))} :
        Op("move_by", off, r)
    /\ UNCHANGED cursor

\* Brush.move_to(x, y, z) and Brush.move_to(x, y, z, bbox=True)
MoveTo ==
    /\ CanRun
    /\ \E target \in Targets, bbox \in BOOLEAN :
       \E r \in {move_to(Self, R(target[1]), R(target[2]), R(target[3]), bbox)} :
        Op("move_to", <<target, bbox>>, r)
    /\ UNCHANGED cursor

Rotate(kind) ==
    /\ CanRun
    /\ \E angle \in Angles, c \in Centers :
       \E r \in {Outcome("", 0, rotate(Self, kind, angle, IPoint(c[1], c[2], c[3])))} :
        Op(kind, <<angle, c>>, r)
    /\ UNCHANGED cursor

\* Brush.rotate_x
RotateX == Rotate("rotate_x")

\* Brush.rotate_y
RotateY == Rotate("rotate_y")

\* Brush.rotate_z
RotateZ == Rotate("rotate_z")

\* Brush.rotate_x / rotate_y / rotate_z about the second point of the plane of
\* the first face, b.rotate_x(angle, b.faces[0].plane.p2)
RotateAboutPlanePoint ==
    /\ CanRun
    /\ built \in Aliased
    /\ \E kind \in {"rotate_x", "rotate_y", "rotate_z"}, angle \in FullTurns :
       \E r \in {Outcome("", 0, rotate_about(Self, kind, angle, faces[1].plane.p2))} :
        Op(kind, <<angle, points[faces[1].plane.p2], "faces[0].plane.p2">>, r)
    /\ UNCHANGED cursor

\* Brush.rotate_xyz
RotateXYZ ==
    /\ CanRun
    /\ \E e \in Eulers :
       \E r \in {Outcome("", 0, rotate_xyz(Self, e[1], e[2], e[3]))} :
        Op("rotate_xyz", e, r)
    /\ UNCHANGED cursor

\* Brush.rotate_around_axis
RotateAroundAxis ==
    /\ CanRun
    /\ \E angle \in Angles, axis \in Axes :
       \E r \in {Outcome("", 0, brush_rotate_around_axis(Self, angle,
                                    IVector3(axis[1], axis[2], axis[3])))} :
        Op("rotate_around_axis", <<angle, axis>>, r)
    /\ UNCHANGED cursor

\* Brush.set_texture
SetTexture ==
    /\ CanRun
    /\ \E name \in Names :
       \E r \in {Outcome("", 0, set_texture(Self, name))} :
        Op("set_texture", <<name>>, r)
    /\ UNCHANGED cursor

\* the part of a brush that is not on the heaps
Handle(self) ==
    [faces |-> self.faces, face_counter |-> self.face_counter,
     _vertices |-> self._vertices, _origin |-> self._origin]

\* the second brush, on the heaps
Other ==
    [points |-> points, textures |-> textures, faces |-> other[1].faces,
     face_counter |-> other[1].face_counter, _vertices |-> other[1]._vertices,
     _origin |-> other[1]._origin]

\* c = b.copy() of the brush as it was built; the calls that follow go to c
\* (on_copy) or to b
Copy ==
    /\ Usable
    /\ other = None
    /\ ops = 0
    /\ \E on_copy \in BOOLEAN :
       \E c \in {copy(Self)} :
       \E b \in {[Self EXCEPT !.points = c.points, !.textures = c.textures]} :
        /\ Becomes(Outcome("", 0, IF on_copy THEN c ELSE b))
        /\ other' = Some(Handle(IF on_copy THEN b ELSE c))
        /\ last' = [op |-> "copy", arg |-> <<on_copy>>]
    /\ returned' = None
    /\ UNCHANGED <<built, cursor, ops>>

\* the point of a call b.is_point_inside(point): a given Point, b.centroid(),
\* or b.centroid() moved by Far along an axis; centroid() reads b.vertices
ProbePoint(self, probe) ==
    IF probe.kind = "at"
    THEN [err |-> "", runs |-> 0, self |-> self,
          point |-> IPoint(probe.at[1], probe.at[2], probe.at[3])]
    ELSE Bind(vertices(self), LAMBDA a :
         Bind(centroid(a.self._vertices), LAMBDA c :
              [err |-> a.err, runs |-> a.runs, self |-> a.self,
               point |-> Point(QAdd(c.x, R(Far * probe.at[1])),
                               QAdd(c.y, R(Far * probe.at[2])),
                               QAdd(c.z, R(Far * probe.at[3])))]))

ProbeChoices ==
    [kind : {"at"}, at : Probes] \cup [kind : {"centroid"}, at : {<<0, 0, 0>>}]
        \cup [kind : {"far"}, at : Directions]

\* Brush.is_point_inside
IsPointInside ==
    /\ CanRun
    /\ \E probe \in ProbeChoices :
       \E p \in {ProbePoint(Self, probe)} :
       \E r \in {IF p.err = "" THEN is_point_inside(p.self, p.point)
                               ELSE [ret |-> FALSE, self |-> p.self]} :
        Call("is_point_inside", <<probe.kind, probe.at, p.point>>,
             Outcome(p.err, p.runs, r.self),
             IF p.err = "" THEN Some(r.ret) ELSE None)
    /\ UNCHANGED <<cursor, other>>

\* Brush.collide_with, called on the brush with the second brush
CollideWith ==
    /\ CanRun
    /\ other # None
    /\ \E r \in {collide_with(Self, Other)} :
        /\ Call("collide_with", <<>>, Outcome(r.err, r.runs, r.self), r.ret)
        /\ other' = Some(Handle(r.other))
    /\ UNCHANGED cursor

\* Brush.replace_texture
ReplaceTexture ==
    /\ CanRun
    /\ \E old \in Wanted, new \in Names :
       \E r \in {Outcome("", 0, replace_texture(Self, old, new))} :
        Op("replace_texture", <<old, new>>, r)
    /\ UNCHANGED cursor

\* Brush.has_texture
HasTexture ==
    /\ CanRun
    /\ \E name \in Wanted :
        Call("has_texture", <<name>>, Outcome("", 0, Self), Some(has_texture(Self, name)))
    /\ UNCHANGED <<cursor, other>>

\* Face.centroid() on a face of the brush, as the winding pass calls it
GetFaceCentroid ==
    /\ CanRun
    /\ \E f \in 1 .. Len(faces) :
        Call("Face.centroid", <<f>>, Outcome("", 0, Self),
             Some(FaceCentroid(faces[f], points)))
    /\ UNCHANGED <<cursor, other>>

\* Brush.centroid()
GetCentroid ==
    /\ CanRun
    /\ \E r \in {brush_centroid(Self)} :
        Call("centroid", <<>>, Outcome(r.err, r.runs, r.self), r.ret)
    /\ UNCHANGED <<cursor, other>>

\* Brush.bounding_box_origin()
GetBoundingBoxOrigin ==
    /\ CanRun
    /\ \E r \in {brush_bounding_box_origin(Self)} :
        Call("bounding_box_origin", <<>>, Outcome(r.err, r.runs, r.self), r.ret)
    /\ UNCHANGED <<cursor, other>>

Next ==
    \/ NewBrush
    \/ LoadBrush
    \/ Cuboid
    \/ Tetrahedron
    \/ Sphere
    \/ AddFace
    \/ GetVertices
    \/ GetOrigin
    \/ MoveBy
    \/ MoveTo
    \/ RotateX
    \/ RotateY
    \/ RotateZ

Spec == Init /\ [][Next]_vars

\* a brush put to the point test
NextInside ==
    \/ NewBrush
    \/ LoadBrush
    \/ Cuboid
    \/ Tetrahedron
    \/ AddFace
    \/ GetVertices
    \/ MoveBy
    \/ RotateZ
    \/ IsPointInside

SpecInside == Init /\ [][NextInside]_vars

\* a brush and its copy
NextCopy ==
    \/ LoadBrush
    \/ Cuboid
    \/ Tetrahedron
    \/ Copy
    \/ AddFace
    \/ GetVertices
    \/ MoveBy
    \/ MoveTo
    \/ RotateX
    \/ SetTexture
    \/ CollideWith

SpecCopy == Init /\ [][NextCopy]_vars

\* a brush under every rotation
NextRotate ==
    \/ LoadBrush
    \/ Cuboid
    \/ Tetrahedron
    \/ GetVertices
    \/ MoveBy
    \/ RotateX
    \/ RotateY
    \/ RotateZ
    \/ RotateAboutPlanePoint
    \/ RotateXYZ
    \/ RotateAroundAxis

SpecRotate == Init /\ [][NextRotate]_vars

----------------------------------------------------------------------------
(* A Point on its own: Point(x, y, z) and its rotations, the point being    *)
(* points[1]                                                                *)

Coordinates == {-1, 0, 2}
PointCenters == {<<0, 0, 0>>, <<1, 2, 3>>, <<-1, 0, 2>>}

\* Point(x, y, z)
NewPoint ==
    /\ built = "none"
    /\ \E x \in Coordinates, y \in Coordinates, z \in Coordinates :
        /\ points' = <<IPoint(x, y, z)>>
        /\ last' = [op |-> "Point", arg |-> <<x, y, z>>]
    /\ built' = "Point"
    /\ UNCHANGED <<textures, faces, face_counter, _vertices, _origin, cursor, ops,
                   err, nerr, enum_runs, enum_faces, returned, other>>

\* p.rotate_x / rotate_y / rotate_z / rotate_xyz (angles, center) as the call
\* name of the point whose value becomes q; last.arg keeps the angles, the
\* center and the point before the call
PointCall(name, angles, center, q) ==
    /\ built = "Point"
    /\ ops < MaxOps
    /\ points' = <<q>>
    /\ last' = [op |-> name, arg |-> <<angles, center, points[1]>>]
    /\ ops' = ops + 1
    /\ UNCHANGED <<textures, built, faces, face_counter, _vertices, _origin, cursor,
                   err, nerr, enum_runs, enum_faces, returned, other>>

\* Point.rotate_x
PointRotateX ==
    \E angle \in Angles, c \in PointCenters :
        PointCall("rotate_x", <<angle>>, IPoint(c[1], c[2], c[3]),
                  PointRotate(rotation_x(angle), points[1], IPoint(c[1], c[2], c[3])))

\* Point.rotate_y
PointRotateY ==
    \E angle \in Angles, c \in PointCenters :
        PointCall("rotate_y", <<angle>>, IPoint(c[1], c[2], c[3]),
                  PointRotate(rotation_y(angle), points[1], IPoint(c[1], c[2], c[3])))

\* Point.rotate_z
PointRotateZ ==
    \E angle \in Angles, c \in PointCenters :
        PointCall("rotate_z", <<angle>>, IPoint(c[1], c[2], c[3]),
                  PointRotate(rotation_z(angle), points[1], IPoint(c[1], c[2], c[3])))

\* Point.rotate_xyz
PointRotateEuler ==
    \E e \in Eulers, c \in PointCenters :
        PointCall("rotate_xyz", e, IPoint(c[1], c[2], c[3]),
                  PointRotateXYZ(points[1], e[1], e[2], e[3], IPoint(c[1], c[2], c[3])))

NextPoint ==
    \/ NewPoint
    \/ PointRotateX
    \/ PointRotateY
    \/ PointRotateZ
    \/ PointRotateEuler

SpecPoint == Init /\ [][NextPoint]_vars

----------------------------------------------------------------------------
(* A Vector3 on its own, the vector being points[1]                         *)

Components == -4 .. 4

\* the vectors of whole components whose length is a whole number
WholeLength(x, y, z) == \E r \in 0 .. 7 : r * r = x * x + y * y + z * z

\* Vector3(x, y, z)
NewVector ==
    /\ built = "none"
    /\ \E x \in Components, y \in Components, z \in Components :
        /\ WholeLength(x, y, z)
        /\ points' = <<IVector3(x, y, z)>>
        /\ last' = [op |-> "Vector3", arg |-> <<x, y, z>>]
    /\ built' = "Vector3"
    /\ UNCHANGED <<textures, faces, face_counter, _vertices, _origin, cursor, ops,
                   err, nerr, enum_runs, enum_faces, returned, other>>

\* a call v.<name>() of outcome r; last.arg keeps the vector before the call
VectorCall(name, r) ==
    /\ built = "Vector3"
    /\ ops < MaxOps
    /\ points' = <<r.self>>
    /\ last' = [op |-> name, arg |-> <<points[1]>>]
    /\ returned' = r.ret
    /\ err' = r.err
    /\ nerr' = IF r.err = "" THEN nerr ELSE nerr + 1
    /\ ops' = ops + 1
    /\ UNCHANGED <<textures, built, faces, face_counter, _vertices, _origin, cursor,
                   enum_runs, enum_faces, other>>

\* Vector3.normalize
Normalize == VectorCall("normalize", normalize(points[1]))

\* Vector3.normalized
Normalized == VectorCall("normalized", vector_normalized(points[1]))

NextVector ==
    \/ NewVector
    \/ Normalize
    \/ Normalized

SpecVector == Init /\ [][NextVector]_vars

----------------------------------------------------------------------------
(* A face line of a map file, as the list of its 31 words: load_map makes a *)
(* brush with the face of the line, MapWriter.write_face writes the face    *)

\* float(word) for the numerals of the lines
float(word) ==
    CASE word \in {"0", "0.0", "0.00"} -> R(0)
      [] word \in {"1", "1.0"} -> R(1)
      [] word \in {"-1", "-1.0"} -> R(-1)
      [] word \in {"2", "2.0"} -> R(2)
      [] word \in {"16", "16.0"} -> R(16)
      [] word \in {"0.5", ".5"} -> <<1, 2>>
      [] word \in {"0.25", "0.250"} -> <<1, 4>>

\* str(x) of a float x, as the f-strings of the writer format it
str(x) ==
    CASE x = R(0) -> "0.0"
      [] x = R(1) -> "1.0"
      [] x = R(-1) -> "-1.0"
      [] x = R(2) -> "2.0"
      [] x = R(16) -> "16.0"
      [] x = <<1, 2>> -> "0.5"
      [] x = <<1, 4>> -> "0.25"

\* the words of "( x y z ) ( x y z ) ( x y z ) NAME [ 1 0 0 uo ] [ 0 -1 0 vo ]
\* rot us vs" for the nine coordinate words c
Words(c, name, uo, vo, rot, us, vs) ==
    <<"(", c[1], c[2], c[3], ")", "(", c[4], c[5], c[6], ")",
      "(", c[7], c[8], c[9], ")", name,
      "[", "1", "0", "0", uo, "]", "[", "0", "-1", "0", vo, "]", rot, us, vs>>

CoordinateWords ==
    {<<"0", "0", "0", "2", "0", "0", "0", "2", "0">>,
     <<"1", "0", "0", "1.0", "0.00", "1", ".5", "1", "0">>}

FileLines ==
    {Words(c, name, uo, vo, rot, us, vs) :
        c \in CoordinateWords, name \in {"SKY", "sky", "NULL"},
        uo \in {"0", "16", "0.5"}, vo \in {"0", "-1"}, rot \in {"0", "0.0"},
        us \in {"1"}, vs \in {"1", "0.250"}}

\* loader.py 64-82: face_info = line.strip().split(), and the values taken
\* from it (face_info[k] is info[k + 1])
face_of_line(info) ==
    [p1 |-> Point(float(info[2]), float(info[3]), float(info[4])),
     p2 |-> Point(float(info[7]), float(info[8]), float(info[9])),
     p3 |-> Point(float(info[12]), float(info[13]), float(info[14])),
     name |-> info[16],
     u_axis |-> Vector3(float(info[18]), float(info[19]), float(info[20])),
     u_offset |-> float(info[21]),
     v_axis |-> Vector3(float(info[24]), float(info[25]), float(info[26])),
     v_offset |-> float(info[27]),
     rotation |-> float(info[29]), u_scale |-> float(info[30]),
     v_scale |-> float(info[31])]

\* Point.__str__ and Vector3.__str__, as words
point_str(p) == <<"(", str(p.x), str(p.y), str(p.z), ")">>
vector_str(v) == <<str(v.x), str(v.y), str(v.z)>>

\* MapWriter.write_face : the words of the line it writes
write_face(face, pts, texs) ==
    LET texture == texs[face.texture]
    IN  point_str(pts[face.plane.p1]) \o point_str(pts[face.plane.p2])
            \o point_str(pts[face.plane.p3]) \o <<texture.name>>
            \o <<"[">> \o vector_str(texture.u_axis) \o <<str(texture.u_offset), "]">>
            \o <<"[">> \o vector_str(texture.v_axis) \o <<str(texture.v_offset), "]">>
            \o <<str(texture.rotation), str(texture.u_scale), str(texture.v_scale)>>

\* load_map on a file of one entity block that holds one brush block with one
\* face line; properties tells whether the entity block has key-value lines
LoadFace ==
    /\ built = "none"
    /\ \E line \in FileLines, properties \in BOOLEAN :
       \E r \in {Outcome("", 0, AddLines(Brush, <<face_of_line(line)>>))} :
        Construct("load_face", <<line, properties>>, r)

\* MapWriter.write_map on a map of one entity : [err, lines], the face lines
\* written. An entity without properties is left out with its brushes; for
\* one with properties the header line reads entity._id, an attribute that
\* Entity does not have
write_map(properties, self) ==
    IF properties THEN [err |-> "AttributeError", lines |-> <<>>]
    ELSE [err |-> "", lines |-> <<>>]

\* save_map(map, output), which is MapWriter(map, output)
SaveMap ==
    /\ built = "load_face"
    /\ ops < MaxOps
    /\ \E w \in {write_map(last.arg[2], Self)} :
        Call("save_map", last.arg, Outcome(w.err, 0, Self),
             IF w.err = "" THEN Some(w.lines) ELSE None)
    /\ UNCHANGED <<cursor, other>>

\* MapWriter.write_face on the face of the brush; last.arg keeps the line the
\* face was loaded from
WriteFace ==
    /\ built = "load_face"
    /\ ops < MaxOps
    /\ Call("write_face", last.arg, Outcome("", 0, Self),
            Some(write_face(faces[1], points, textures)))
    /\ UNCHANGED <<cursor, other>>

NextFile ==
    \/ LoadFace
    \/ SaveMap
    \/ WriteFace

SpecFile == Init /\ [][NextFile]_vars

----------------------------------------------------------------------------
(* Three Plane objects on their own: the planes of faces 1, 2, 3, and their *)
(* intersection                                                             *)

\* planes by their three points: x = 0, x = 1, z = 0, x + y = 1,
\* x + y + z = 1, three points on one line, and x = 0 by points 2 apart
PlaneChoices ==
    <<  <<<<0, 0, 0>>, <<0, 1, 0>>, <<0, 0, 1>>>>,
        <<<<1, 0, 0>>, <<1, 1, 0>>, <<1, 0, 1>>>>,
        <<<<0, 0, 0>>, <<2, 0, 0>>, <<0, 2, 0>>>>,
        <<<<1, 0, 0>>, <<1, 0, 1>>, <<0, 1, 0>>>>,
        <<<<1, 0, 0>>, <<0, 1, 0>>, <<0, 0, 1>>>>,
        <<<<0, 0, 0>>, <<1, 1, 1>>, <<2, 2, 2>>>>,
        <<<<0, 0, 0>>, <<0, 2, 0>>, <<0, 0, 2>>>>  >>

\* Plane(Point, Point, Point) three times; the same choice twice makes two
\* equal planes
NewPlanes ==
    /\ built = "none"
    /\ \E i \in 1 .. Len(PlaneChoices), j \in 1 .. Len(PlaneChoices),
          k \in 1 .. Len(PlaneChoices) :
       \E r \in {AddLines(Brush, <<FaceLine(PlaneChoices[i][1], PlaneChoices[i][2],
                                             PlaneChoices[i][3], "null"),
                                    FaceLine(PlaneChoices[j][1], PlaneChoices[j][2],
                                             PlaneChoices[j][3], "null"),
                                    FaceLine(PlaneChoices[k][1], PlaneChoices[k][2],
                                             PlaneChoices[k][3], "null")>>)} :
        /\ points' = r.points
        /\ textures' = r.textures
        /\ faces' = r.faces
        /\ face_counter' = r.face_counter
        /\ last' = [op |-> "Plane", arg |-> <<i, j, k>>]
    /\ built' = "planes"
    /\ UNCHANGED <<_vertices, _origin, cursor, ops, err, nerr, enum_runs, enum_faces,
                   returned, other>>

\* get_plane_intersection(plane1, plane2, plane3): reads normal and d of the
\* three planes, which caches them
Intersect ==
    /\ built = "planes"
    /\ ops < MaxOps
    /\ \E i \in 1 .. 3, j \in 1 .. 3, k \in 1 .. 3 :
       \E fs \in {list([f \in 1 .. Len(faces) |->
                         IF f \in {i, j, k}
                         THEN [faces[f] EXCEPT !.plane = ReadD(@, points)]
                         ELSE faces[f]])} :
        /\ faces' = fs
        /\ returned' = Some(Candidate(fs, points, <<i - 1, j - 1, k - 1>>))
        /\ last' = [op |-> "get_plane_intersection", arg |-> <<i, j, k>>]
    /\ ops' = ops + 1
    /\ UNCHANGED <<points, textures, built, face_counter, _vertices, _origin, cursor,
                   err, nerr, enum_runs, enum_faces, other>>

\* Face.is_valid on one of the three faces that hold the planes
IsValid ==
    /\ built = "planes"
    /\ ops < MaxOps
    /\ \E f \in 1 .. Len(faces) :
       \E r \in {is_valid(faces[f], points, textures)} :
        /\ faces' = [faces EXCEPT ![f] = r.face]
        /\ returned' = Some(r.ret)
        /\ last' = [op |-> "is_valid", arg |-> <<f>>]
    /\ ops' = ops + 1
    /\ UNCHANGED <<points, textures, built, face_counter, _vertices, _origin, cursor,
                   err, nerr, enum_runs, enum_faces, other>>

NextPlanes ==
    \/ NewPlanes
    \/ Intersect

SpecPlanes == Init /\ [][NextPlanes]_vars

NextValid ==
    \/ NewPlanes
    \/ IsValid

SpecValid == Init /\ [][NextValid]_vars

\* a brush under the queries of its position and the moves
NextQuery ==
    \/ NewBrush
    \/ LoadBrush
    \/ Cuboid
    \/ Tetrahedron
    \/ AddFace
    \/ GetVertices
    \/ GetCentroid
    \/ GetBoundingBoxOrigin
    \/ MoveBy
    \/ MoveTo

SpecQuery == Init /\ [][NextQuery]_vars

\* the faces of a brush and their vertex lists
NextFaces ==
    \/ LoadBrush
    \/ Cuboid
    \/ Tetrahedron
    \/ GetVertices
    \/ GetFaceCentroid

SpecFaces == Init /\ [][NextFaces]_vars

\* a brush under the operations on texture names
NextTexture ==
    \/ LoadBrush
    \/ Cuboid
    \/ Tetrahedron
    \/ AddFace
    \/ SetTexture
    \/ ReplaceTexture
    \/ HasTexture

SpecTexture == Init /\ [][NextTexture]_vars

\* reading Face.vertices of one face of the brush
GetFaceVertices ==
    /\ CanRun
    /\ \E f \in 1 .. Len(faces) :
        Call("Face.vertices", <<f>>, Outcome("", 0, Self), Some(faces[f]._vertices))
    /\ UNCHANGED <<cursor, other>>

\* a brush under everything that could touch the vertex lists of its faces
NextLists ==
    \/ NewBrush
    \/ LoadBrush
    \/ Cuboid
    \/ Tetrahedron
    \/ AddFace
    \/ GetVertices
    \/ GetFaceVertices
    \/ MoveBy
    \/ MoveTo
    \/ RotateX
    \/ RotateY
    \/ RotateZ
    \/ RotateXYZ
    \/ RotateAroundAxis
    \/ SetTexture

SpecLists == Init /\ [][NextLists]_vars

----------------------------------------------------------------------------
(* Properties                                                               *)

\* a brush made by BrushGenerator.cuboid, no face added since, whose
\* vertices were asked for
CuboidEnumerated == built = "cuboid" /\ cursor = 0 /\ enum_runs > 0

\* C1: for a brush returned by BrushGenerator.cuboid, vertex enumeration
\* yields exactly 8 brush vertices and attaches exactly 4 vertices to each of
\* the 6 faces
C1_CuboidEightVertices ==
    CuboidEnumerated =>
        /\ Len(_vertices) = 8
        /\ \A f \in 1 .. Len(faces) : Len(faces[f]._vertices) = 4

\* the sign of x
QSign(x) == IF x[1] > 0 THEN 1 ELSE IF x[1] < 0 THEN -1 ELSE 0

\* the entry after position i of the ring vs
RingNext(vs, i) == vs[(i % Len(vs)) + 1]

\* two corners of an axis-aligned cuboid are adjacent iff they differ in
\* exactly one coordinate
AdjacentCorners(p, q) ==
    Cardinality({c \in {"x", "y", "z"} : p[c] # q[c]}) = 1

\* the side to which the ring vs turns at position i, seen against the
\* vector n: the sign of n . ((v[i+1] - v[i]) x (v[i+2] - v[i+1]))
Turn(vs, i, n) ==
    QSign(dot(n, cross(PointSub(RingNext(vs, i), vs[i]),
                       PointSub(RingNext(vs, i + 1), RingNext(vs, i)))))

\* C2: after vertex enumeration of an axis-aligned cuboid, every face's vertex
\* list is a ring (cyclically consecutive entries are adjacent corners) that
\* turns the same way, seen along the face normal, on all 6 faces
C2_CuboidFaceRings ==
    (CuboidEnumerated /\ Len(_vertices) = 8) =>
        \A f \in 1 .. Len(faces) :
            LET vs == faces[f]._vertices
            IN  \A i \in 1 .. Len(vs) :
                    /\ AdjacentCorners(vs[i], RingNext(vs, i))
                    /\ Turn(vs, i, normal(faces[f].plane, points))
                            = Turn(faces[1]._vertices, 1, normal(faces[1].plane, points))
                    /\ Turn(vs, i, normal(faces[f].plane, points)) # 0

\* normal . v + d of a face, as the properties Plane.normal and Plane.d give
\* them
FaceEquation(face, v) ==
    solve_plane_equation(normal(face.plane, points), d(face.plane, points), v)

NoNearDuplicates(vs) ==
    \A i, j \in 1 .. Len(vs) : i < j => ~is_near(vs[i], vs[j])

\* C4: the brush vertex list never contains two approximately equal points
\* and no face's vertex list contains the same corner twice
C4_NoDuplicateVertices ==
    /\ NoNearDuplicates(_vertices)
    /\ \A f \in 1 .. Len(faces) : NoNearDuplicates(faces[f]._vertices)

\* C5: no sequence of Brush construction and add_face calls ends with a
\* usable brush holding 1, 2 or 3 faces without an error having been reported
C5_FewFacesRejected ==
    (Usable /\ Len(faces) \in 1 .. 3) => nerr > 0

\* C6: in every brush the face at position i of brush.faces has id i and
\* face_counter equals the number of faces
C6_FaceIdsSequential ==
    Usable =>
        /\ face_counter = Len(faces)
        /\ \A i \in 1 .. Len(faces) : faces[i].id = i - 1

\* C7: _get_vertices runs at most once on a brush, whatever accesses and
\* mutations the brush goes through
C7_EnumeratedOnce ==
    enum_runs <= 1

\* the face on the points it has now, nothing derived or cached
Uncached(face) ==
    [face EXCEPT !.plane = Plane(@.p1, @.p2, @.p3), !._vertices = <<>>]

\* the vertex list an enumeration of the current faces returns
CurrentVertices ==
    get_vertices([f \in 1 .. Len(faces) |-> Uncached(faces[f])], points).bv

\* C8: the brush can be made to recompute its cache: the list an access to
\* Brush.vertices returns is the enumeration of the faces the brush has at
\* the access, also when the faces were mutated after an earlier access
C8_AccessReturnsCurrentVertices ==
    (last.op = "vertices" /\ err = "") => _vertices = CurrentVertices

\* C9: the normal and d a plane reports are those of its current points
C9_PlaneCacheCurrent ==
    \A f \in 1 .. Len(faces) :
        /\ normal(faces[f].plane, points) = normal(Uncached(faces[f]).plane, points)
        /\ d(faces[f].plane, points) = d(Uncached(faces[f]).plane, points)

\* the point translated by the offset off
Translated(p, off) ==
    Point(QAdd(p.x, R(off[1])), QAdd(p.y, R(off[2])), QAdd(p.z, R(off[3])))

PlanePoints(face) == {face.plane.p1, face.plane.p2, face.plane.p3}

MovedOnce ==
    last'.op = "move_by" =>
        \A f \in 1 .. Len(faces) : \A p \in PlanePoints(faces[f]) :
            points'[p] = Translated(points[p], last'.arg)

\* C10: a step of Brush.move_by(dx, dy, dz) leaves every plane point of every
\* face at its old coordinates plus (dx, dy, dz)
C10_MoveByTranslatesOnce ==
    [][MovedOnce]_vars

\* C11: no two faces of a brush hold the same Texture object or the same
\* plane Point object
C11_ExclusiveOwnership ==
    \A f, g \in 1 .. Len(faces) :
        f # g => /\ faces[f].texture # faces[g].texture
                 /\ PlanePoints(faces[f]) \cap PlanePoints(faces[g]) = {}

\* what the second brush reads as: its faces with the Points and the Texture
\* they refer to, its counter and its caches
OtherView ==
    [faces |-> [f \in 1 .. Len(other[1].faces) |->
                    [face |-> other[1].faces[f],
                     p1 |-> points[other[1].faces[f].plane.p1],
                     p2 |-> points[other[1].faces[f].plane.p2],
                     p3 |-> points[other[1].faces[f].plane.p3],
                     texture |-> textures[other[1].faces[f].texture]]],
     face_counter |-> other[1].face_counter,
     _vertices |-> other[1]._vertices,
     _origin |-> other[1]._origin]

Mutators ==
    {"add_face", "move_by", "move_to", "rotate_x", "rotate_y", "rotate_z",
     "set_texture"}

OtherKept ==
    (other # None /\ last'.op \in Mutators) => (other' # None /\ OtherView' = OtherView)

\* C12: after c = b.copy(), a move, rotation, set_texture or add_face on one
\* of the two brushes leaves the faces, plane points, texture fields and
\* cached vertices of the other one as they were
C12_CopySharesNothing ==
    [][OtherKept]_vars

C12_Witness ==
    /\ other # None
    /\ last.op = "move_by"
    /\ err = ""
    /\ \E f \in 1 .. Len(faces) : points[faces[f].plane.p1] # points[other[1].faces[f].plane.p1]

\* the point a call of is_point_inside was made with
Probe == last.arg[3]

\* normal . p + d of a face, on the normal and d its plane reports
Equation(face, p) ==
    QAdd(dot(normal(face.plane, points), as_vector(p)), d(face.plane, points))

\* C13: is_point_inside(p) returns True exactly when normal . p + d <= 0 on
\* every face, which is the test enumeration makes of a candidate vertex
\* against the faces it does not lie on
C13_InsideIffAllNonPositive ==
    (last.op = "is_point_inside" /\ err = "") =>
        /\ returned = Some(\A f \in 1 .. Len(faces) :
                                ~QLt(R(0), Equation(faces[f], Probe)))
        /\ returned = Some(Legal(faces, points, -1, -1, -1, Probe))

C13_Witness ==
    /\ last.op = "is_point_inside"
    /\ err = ""
    /\ returned = Some(TRUE)
    /\ \E f \in 1 .. Len(faces) : QIsZero(Equation(faces[f], Probe))
    /\ \E f \in 1 .. Len(faces) : QLt(Equation(faces[f], Probe), R(0))

\* C14: on a brush of four or more faces that has vertices, is_point_inside
\* answers True for the brush's centroid and False for the centroid moved far
\* out along an axis
C14_CentroidInsideFarOutside ==
    (last.op = "is_point_inside" /\ err = "" /\ Len(faces) >= 4 /\ _vertices # <<>>) =>
        /\ last.arg[1] = "centroid" => returned = Some(TRUE)
        /\ last.arg[1] = "far" => returned = Some(FALSE)

\* the Points of the planes of a face list
AllPlanePoints(fs) ==
    {points[p] : p \in UNION {PlanePoints(fs[f]) : f \in 1 .. Len(fs)}}

\* the second brush has the plane points of the brush, moved by t
TranslatedCopy(t) ==
    /\ Len(other[1].faces) = Len(faces)
    /\ \A f \in 1 .. Len(faces) :
        LET mine == faces[f].plane
            its == other[1].faces[f].plane
        IN  /\ points[its.p1] = PointMoveBy(points[mine.p1], t.x, t.y, t.z)
            /\ points[its.p2] = PointMoveBy(points[mine.p2], t.x, t.y, t.z)
            /\ points[its.p3] = PointMoveBy(points[mine.p3], t.x, t.y, t.z)

\* the boxes around the plane points of the two brushes are apart on axis c
Apart(c) ==
    LET mine == {p[c] : p \in AllPlanePoints(faces)}
        its == {p[c] : p \in AllPlanePoints(other[1].faces)}
    IN  QLt(QMax(mine), QMin(its)) \/ QLt(QMax(its), QMin(mine))

CopiesOfCuboid ==
    /\ built = "cuboid"
    /\ other # None
    /\ cursor = 0
    /\ TranslatedCopy(PointSub(points[other[1].faces[1].plane.p1],
                               points[faces[1].plane.p1]))

\* C15: a call of collide_with on a cuboid and its copy that returns, returns
\* False when the copy was moved so that the two boxes are apart, and True
\* when the copy is where the cuboid is
C15_CollideCopies ==
    (last.op = "collide_with" /\ err = "" /\ CopiesOfCuboid) =>
        /\ (\E c \in {"x", "y", "z"} : Apart(c)) => returned = Some(FALSE)
        /\ TranslatedCopy(IVector3(0, 0, 0)) => returned = Some(TRUE)

\* the displacement of a move_by call
Displacement(off) == IVector3(off[1], off[2], off[3])

FaceTextureMoved ==
    last'.op = "move_by" =>
        \A f \in 1 .. Len(faces) :
            LET old == textures[faces[f].texture]
                new == textures'[faces[f].texture]
                t == Displacement(last'.arg)
            IN  /\ new.u_offset = QSub(old.u_offset, QDiv(dot(t, old.u_axis), old.u_scale))
                /\ new.v_offset = QSub(old.v_offset, QDiv(dot(t, old.v_axis), old.v_scale))
                /\ new.name = old.name
                /\ new.u_axis = old.u_axis /\ new.v_axis = old.v_axis
                /\ new.u_scale = old.u_scale /\ new.v_scale = old.v_scale
                /\ new.rotation = old.rotation

\* C16: a move of the faces by t takes (t . u_axis) / u_scale from u_offset
\* and (t . v_axis) / v_scale from v_offset of each face's texture and leaves
\* its name, axes, scales and rotation as they were
C16_OffsetsFollowTranslation ==
    [][FaceTextureMoved]_vars

C16_Witness ==
    /\ last.op = "move_by"
    /\ \E f \in 1 .. Len(faces) :
        /\ ~QIsZero(textures[faces[f].texture].u_offset)
        /\ ~QIsZero(textures[faces[f].texture].v_offset)
        /\ textures[faces[f].texture].u_offset # textures[faces[f].texture].v_offset

Rotations == {"rotate_x", "rotate_y", "rotate_z", "rotate_xyz", "rotate_around_axis"}

\* the Face operation of a call of the brush method name with arguments arg
FaceOp(name, arg) ==
    CASE name \in {"rotate_x", "rotate_y", "rotate_z"} ->
            [kind |-> name, angle |-> arg[1],
             center |-> IF Len(arg) = 3 THEN arg[2]
                        ELSE IPoint(arg[2][1], arg[2][2], arg[2][3])]
      [] name = "rotate_xyz" ->
            [kind |-> name, phi |-> arg[1], theta |-> arg[2], psi |-> arg[3]]
      [] name = "rotate_around_axis" ->
            [kind |-> name, angle |-> arg[1],
             axis |-> IVector3(arg[2][1], arg[2][2], arg[2][3])]

\* the vector v under the rotation that the operation applies to a plane point
\* about the origin
RotatedAsPoint(op, v) ==
    as_vector(FacePointOp(IF op.kind \in {"rotate_x", "rotate_y", "rotate_z"}
                          THEN [op EXCEPT !.center = IPoint(0, 0, 0)] ELSE op,
                          Point(v.x, v.y, v.z)))

AxesFollowPoints ==
    last'.op \in Rotations =>
        \A f \in 1 .. Len(faces) :
            LET old == textures[faces[f].texture]
                new == textures'[faces[f].texture]
                op == FaceOp(last'.op, last'.arg)
            IN  /\ new.u_axis = RotatedAsPoint(op, old.u_axis)
                /\ new.v_axis = RotatedAsPoint(op, old.v_axis)

\* C17: a rotation of the brush turns the u_axis and v_axis of every face's
\* texture by the rotation it applies to the face's plane points
C17_TextureAxesFollowPoints ==
    [][AxesFollowPoints]_vars

OffsetUpdateLast ==
    last'.op \in Rotations =>
        LET calls == TextureCalls(FaceOp(last'.op, last'.arg))
        IN  /\ calls[Len(calls)].method = "_update_offset"
            /\ calls[Len(calls)].arg = IVector3(0, 0, 0)
            /\ \A i \in 1 .. Len(calls) - 1 : calls[i].method = "_rotate_uv"
            /\ \A f \in 1 .. Len(faces) :
                /\ textures'[faces[f].texture].u_offset = textures[faces[f].texture].u_offset
                /\ textures'[faces[f].texture].v_offset = textures[faces[f].texture].v_offset

\* C18: the last Texture method a face rotation calls is _update_offset with
\* the zero vector, after the rotations of the axes, and the offsets are
\* left as they were
C18_OffsetUpdateAfterRotation ==
    [][OffsetUpdateLast]_vars

\* what reading Brush.vertices returns
VerticesRead(self) == vertices(self).self._vertices

\* the brush of the next state
SelfAfter ==
    [points |-> points', textures |-> textures', faces |-> faces',
     face_counter |-> face_counter', _vertices |-> _vertices', _origin |-> _origin']

FullTurnRestores ==
    (last'.op \in {"rotate_x", "rotate_y", "rotate_z", "rotate_around_axis"}
        /\ last'.arg[1] = 360) =>
        /\ \A f \in 1 .. Len(faces) : \A p \in PlanePoints(faces[f]) :
                points'[p] = points[p]
        /\ VerticesRead(SelfAfter) = VerticesRead(Self)

\* C19: a rotation of the brush by 360 degrees leaves every plane point and
\* the vertices the brush reports where they were
C19_FullTurnIsIdentity ==
    [][FullTurnRestores]_vars

\* the state after one of the four rotations of a Point
PointRotated == built = "Point" /\ last.op \in {"rotate_x", "rotate_y", "rotate_z", "rotate_xyz"}

\* the square of the distance between two points
SquareDistance(p, q) == square_length(PointSub(p, q))

\* C20: a Point rotated about a center c by rotate_x, rotate_y, rotate_z or
\* rotate_xyz keeps its distance to c, and the point equal to c stays at c
C20_RigidAboutCenter ==
    PointRotated =>
        /\ SquareDistance(points[1], last.arg[2]) = SquareDistance(last.arg[3], last.arg[2])
        /\ last.arg[3] = last.arg[2] => points[1] = last.arg[2]

\* the mean of a non-empty list of points: the point m with len * m = sum
IsMean(m, bv) ==
    /\ QMul(R(Len(bv)), m.x) = sum([i \in 1 .. Len(bv) |-> bv[i].x], 1, Len(bv))
    /\ QMul(R(Len(bv)), m.y) = sum([i \in 1 .. Len(bv) |-> bv[i].y], 1, Len(bv))
    /\ QMul(R(Len(bv)), m.z) = sum([i \in 1 .. Len(bv) |-> bv[i].z], 1, Len(bv))

\* a call of Brush.centroid() that returned
CentroidReturned == last.op = "centroid" /\ err = ""

\* C21: Brush.centroid() returns the mean of the vertices of the brush as it
\* is at the call, and the zero point when the brush has no vertex
C21_CentroidIsMeanOfVertices ==
    CentroidReturned =>
        IF CurrentVertices = <<>> THEN returned = Some(IPoint(0, 0, 0))
        ELSE IsMean(returned[1], CurrentVertices)

\* C22: on a brush without faces centroid() and bounding_box_origin() return
\* a value and do not raise
C22_QueriesOfEmptyBrushReturn ==
    (last.op \in {"centroid", "bounding_box_origin"} /\ faces = <<>>) =>
        err = "" /\ returned # None

\* every face's texture name is stored in upper case
NamesUpper ==
    \A f \in 1 .. Len(faces) :
        textures[faces[f].texture].name = upper(textures[faces[f].texture].name)

\* after a step the names are upper case, and has_texture(n) on a brush with
\* a face, right after set_texture(n), returns True
NamesNormalized ==
    /\ NamesUpper'
    /\ (last.op = "set_texture" /\ last'.op = "has_texture"
            /\ last'.arg = last.arg /\ faces # <<>>) => returned' = Some(TRUE)

\* C23: texture names are stored upper-cased and matched without regard to
\* case: has_texture(n) holds right after set_texture(n)
C23_TextureNamesNormalized ==
    [][NamesNormalized]_vars

\* C24: normalize() and normalized() of a vector of length zero raise, and
\* return no vector
C24_ZeroVectorNotNormalized ==
    (last.op \in {"normalize", "normalized"} /\ last.arg[1] = IVector3(0, 0, 0)) =>
        err # "" /\ returned = None

\* the plane that was argument a of the last get_plane_intersection
Argument(a) == faces[last.arg[a]].plane

\* n1 . (n2 x n3) of the three arguments, by the rule of Sarrus
Denominator ==
    LET n1 == normal(Argument(1), points)
        n2 == normal(Argument(2), points)
        n3 == normal(Argument(3), points)
    IN  QSub(QAdd3(QMul(QMul(n1.x, n2.y), n3.z), QMul(QMul(n1.y, n2.z), n3.x),
                   QMul(QMul(n1.z, n2.x), n3.y)),
             QAdd3(QMul(QMul(n1.z, n2.y), n3.x), QMul(QMul(n1.y, n2.x), n3.z),
                   QMul(QMul(n1.x, n2.z), n3.y)))

\* the point x is on the plane that was argument a: n . x + d = 0
OnArgument(a, x) ==
    QIsZero(solve_plane_equation(normal(Argument(a), points), d(Argument(a), points), x))

Intersected == built = "planes" /\ last.op = "get_plane_intersection"

\* C25: get_plane_intersection returns None exactly when n1 . (n2 x n3) is
\* zero, and otherwise the point that satisfies the equations of all three
\* planes
C25_IntersectionOfThreePlanes ==
    Intersected =>
        /\ returned[1] = None <=> QIsZero(Denominator)
        /\ returned[1] # None => \A a \in 1 .. 3 : OnArgument(a, returned[1][1])

\* three planes that meet in one point off the origin were intersected
C25_Witness ==
    /\ Intersected
    /\ returned[1] # None
    /\ returned[1][1] # IPoint(0, 0, 0)

\* two vectors of the same or of opposite direction
SameLine(a, b) ==
    /\ a # IVector3(0, 0, 0)
    /\ b # IVector3(0, 0, 0)
    /\ cross(a, b) = IVector3(0, 0, 0)

\* the face Face.is_valid was called on
Validated == faces[last.arg[1]]

\* C26: is_valid() is False for a face whose texture u_axis or v_axis is
\* parallel to the normal of its plane, whatever the length of the normal
C26_AxisAlongNormalIsInvalid ==
    (built = "planes" /\ last.op = "is_valid") =>
        ((\/ SameLine(textures[Validated.texture].u_axis,
                      normal(Uncached(Validated).plane, points))
          \/ SameLine(textures[Validated.texture].v_axis,
                      normal(Uncached(Validated).plane, points)))
            => returned = Some(FALSE))

\* the places of the numbers among the 31 words of a face line
NumberPlaces ==
    {2, 3, 4, 7, 8, 9, 12, 13, 14, 18, 19, 20, 21, 24, 25, 26, 27, 29, 30, 31}

\* the line written has the words of the line loaded, place by place: the
\* numbers by their values, the other words as they are
SameRecord(written, loaded) ==
    /\ Len(written) = Len(loaded)
    /\ \A i \in 1 .. Len(loaded) :
        IF i \in NumberPlaces THEN float(written[i]) = float(loaded[i])
        ELSE written[i] = loaded[i]

\* C27: the face of a line, written back unmodified, gives the plane points
\* and the texture fields of the line, with their values and in their order
C27_FaceRoundTrip ==
    /\ last.op = "write_face" => SameRecord(returned[1], last.arg[1])
    /\ last.op = "save_map" =>
            /\ err = ""
            /\ Len(returned[1]) = 1
            /\ SameRecord(returned[1][1], last.arg[1])

\* C28: the centroid of a face with three vertices or more is the mean of
\* the vertices collected for the face
C28_FaceCentroidIsMean ==
    (last.op = "Face.centroid" /\ Len(faces[last.arg[1]]._vertices) >= 3
            /\ returned[1] # None) =>
        IsMean(returned[1][1], faces[last.arg[1]]._vertices)

\* a move_to with the centroid reference that follows the same move_to leaves
\* the plane points where they are
SecondMoveToStays ==
    (/\ last.op = "move_to" /\ last.arg[2] = FALSE /\ err = ""
     /\ ops' = ops + 1
     /\ last'.op = "move_to" /\ last'.arg = last.arg /\ err' = "") =>
        \A f \in 1 .. Len(faces) : \A p \in PlanePoints(faces[f]) :
            points'[p] = points[p]

\* C29: move_to(x, y, z) brings the centroid of the brush's geometry to the
\* target, so the same move_to called again moves nothing
C29_MoveToTwice ==
    [][SecondMoveToStays]_vars

\* the two lists hold the same values the same number of times
SameBag(s, t) ==
    /\ Len(s) = Len(t)
    /\ \A i \in 1 .. Len(s) :
        Cardinality({j \in 1 .. Len(s) : s[j] = s[i]}) =
        Cardinality({j \in 1 .. Len(t) : t[j] = s[i]})

\* the calls that the vertex lists of the faces are said not to feel
Bystanders ==
    {"add_face", "move_by", "move_to", "rotate_x", "rotate_y", "rotate_z",
     "rotate_xyz", "rotate_around_axis", "set_texture", "Face.vertices"}

\* the faces the brush had before the step have the lists they had
ListsKept ==
    \A f \in 1 .. Len(faces) : faces'[f]._vertices = faces[f]._vertices

\* the lists as the triple loop of an enumeration on the brush of this state
\* leaves them, before the winding pass
Appended ==
    Enumerate(IF Len(faces) >= 3
              THEN list([f \in 1 .. Len(faces) |->
                            [faces[f] EXCEPT !.plane = ReadD(@, points)]])
              ELSE faces, points).faces

\* a call named among the bystanders leaves every list as it was
BystandersKeepLists ==
    (ops' = ops + 1 /\ last'.op \in Bystanders) => ListsKept

\* a step: no list before the first enumeration; without an enumeration the
\* lists stay and a new face has none; an enumeration leaves in every list
\* what its triple loop appended, in some order
ListsFollowEnumeration ==
    /\ enum_runs' = 0 => \A f \in 1 .. Len(faces') : faces'[f]._vertices = <<>>
    /\ (ops' = ops + 1 /\ enum_runs' = enum_runs) =>
            /\ ListsKept
            /\ \A f \in Len(faces) + 1 .. Len(faces') : faces'[f]._vertices = <<>>
    /\ (ops' = ops + 1 /\ enum_runs' > enum_runs) =>
            /\ last'.op \in {"vertices", "move_to"}
            /\ _vertices = <<>>
            /\ Len(faces') = Len(faces)
            /\ \A f \in 1 .. Len(faces) :
                    SameBag(faces'[f]._vertices, Appended[f]._vertices)

\* C30 as stated: add_face, move_by, move_to, the rotations, set_texture and
\* reading Face.vertices leave the vertex list of every face unchanged
C30_BystandersKeepLists ==
    [][BystandersKeepLists]_vars

\* C30, amended: the vertex list of a face is empty until the brush enumerates
\* its vertices and changes only in an enumeration, which reading
\* Brush.vertices and move_to run on a brush whose own list is empty; the
\* winding pass only reorders what the enumeration appended
C30_ListsFollowEnumeration ==
    [][ListsFollowEnumeration]_vars

\* move_to, on a brush that had not enumerated, filled the lists of the faces
C30_Witness ==
    /\ last.op = "move_to"
    /\ err = ""
    /\ enum_runs = 1
    /\ built = "load_map"
    /\ \E f \in 1 .. Len(faces) : Len(faces[f]._vertices) >= 3

====
